---------------------------- MODULE Spec2Model ----------------------------
(***************************************************************************)
(* The Phase Controller of the project-defence coach: the Agent component  *)
(* (src/components/Agent.tsx) driving the EnhancedVapi voice transport     *)
(* (src/lib/question-generator.ts).                                        *)
(*                                                                         *)
(* Agent is a React function component.  A handler reads the state its     *)
(* render captured and queues updates with setX(...); React commits the    *)
(* updates when the handler returns or suspends at an await, before the    *)
(* next event is dispatched.  An action of this model is therefore one     *)
(* handler run up to its next await TOGETHER WITH the commit it causes:    *)
(*   - a commit happens when some state value changed or an array state    *)
(*     got a new identity (React bails out otherwise);                     *)
(*   - every commit runs the cleanup of the subscription effect (lines     *)
(*     516-528) and subscribes fresh handlers, because the effect lists    *)
(*     handleGenerateFeedback, a new function object in every render,      *)
(*     among its dependencies;                                             *)
(*   - timers and promise continuations keep the closure of the render     *)
(*     that created them, which the model stores with them.                *)
(***************************************************************************)
EXTENDS Integers, Sequences, FiniteSets, TLC

(* ------------------------------ bounds -------------------------------- *)
\* longest in-memory transcript explored
MaxMessages == 3
\* most vapi.start promises of handleCall awaited at the same time
MaxStartsInFlight == 1
\* most updateDefenseSession calls of onProjectInfoReceived awaited together
MaxUpdatesInFlight == 2
\* most createFeedback calls awaited together
MaxFeedbackInFlight == 1
\* most 1.5 s feedback timers pending together
MaxFeedbackTimers == 1
\* most reconnect timers that may be pending together (one suffices for the
\* code as written; the slack lets a missing clearTimeout show)
MaxTimers == 2
\* the count of reconnects of one error episode saturates here
MaxEpisode == 4
\* the readings of the clock the calls on the session store take
MaxClock == 2
\* most lines of an evaluator response
MaxLines == 6
\* most documents the feedback collection holds
MaxFeedbackRecords == 2
\* most characters of the text an extractor yields
MaxTextLen == 3
\* most calls of updateDefenseSession running concurrently on one session
MaxConcurrentUpdates == 2

(* -------------------------- program constants ------------------------- *)
maxReconnectAttempts == 3
\* handleGenerateFeedback / onCallEnd / onError: messages.length >= 3
MinFeedbackMessages == 3
\* question-generator.ts line 96: questionsList.length < 5
MinQuestions == 5

(* ------------------- strings as character sequences ------------------- *)
PatConnection == <<"c","o","n","n","e","c","t","i","o","n">>
PatEnded == <<"e","n","d","e","d">>
PatTransport == <<"t","r","a","n","s","p","o","r","t">>
PatNetwork == <<"n","e","t","w","o","r","k">>
PatMeetingHasEnded == <<"M","e","e","t","i","n","g"," ","h","a","s"," ","e","n","d","e","d">>
UnknownConnectionError == <<"U","n","k","n","o","w","n"," ","c","o","n","n","e","c","t","i","o","n"," ","e","r","r","o","r">>
PatAPIKey == <<"A","P","I"," ","k","e","y">>
PatAuthentication == <<"a","u","t","h","e","n","t","i","c","a","t","i","o","n">>
PatGoogleKey == <<"G","O","O","G","L","E","_","G","E","N","E","R","A","T","I","V","E","_","A","I","_","A","P","I","_","K","E","Y">>
PatTimeout == <<"t","i","m","e","o","u","t">>
PatMaxReconnect == <<"m","a","x","i","m","u","m"," ","r","e","c","o","n","n","e","c","t","i","o","n"," ","a","t","t","e","m","p","t","s">>

\* error messages the transport delivers in the explored runs
MsgConnectionTimeout == <<"C","o","n","n","e","c","t","i","o","n"," ","t","i","m","e","o","u","t">>
MsgAPIKeyNetwork == <<"A","P","I"," ","k","e","y"," ","n","e","t","w","o","r","k">>
MsgMaxReconnect == <<"F","a","i","l","e","d"," ","t","o"," ","c","o","n","n","e","c","t"," ","a","f","t","e","r"," ","m","a","x","i","m","u","m"," ","r","e","c","o","n","n","e","c","t","i","o","n"," ","a","t","t","e","m","p","t","s">>

\* String.prototype.includes, case sensitive
Includes(s, p) ==
  \E i \in 1..(Len(s) - Len(p) + 1) : SubSeq(s, i, i + Len(p) - 1) = p

\* the error objects handed to the "error" listeners: an Error with a
\* message, or the empty object the transport emits on socket failures
NoMessage == <<>>
ErrorEvents == {NoMessage, MsgConnectionTimeout, MsgAPIKeyNetwork}

\* onError: error && error.message ? error.message : "Unknown connection error"
ErrorMsgOf(error) == IF error # NoMessage THEN error ELSE UnknownConnectionError

\* variant: "connection" in the message does not make a connectivity error
isConnectionError_NoConnection(errorMsg) ==
  \/ Includes(errorMsg, PatEnded)
  \/ Includes(errorMsg, PatTransport)
  \/ Includes(errorMsg, PatNetwork)
  \/ Includes(errorMsg, PatMeetingHasEnded)

isConnectionError(errorMsg) ==
  \/ Includes(errorMsg, PatConnection)
  \/ Includes(errorMsg, PatEnded)
  \/ Includes(errorMsg, PatTransport)
  \/ Includes(errorMsg, PatNetwork)
  \/ Includes(errorMsg, PatMeetingHasEnded)
  \/ errorMsg = UnknownConnectionError

\* variant: the "API key" pattern is not looked for
isAPIKeyError_NoKeyPattern(errorMsg) ==
  \/ Includes(errorMsg, PatAuthentication)
  \/ Includes(errorMsg, PatGoogleKey)

isAPIKeyError(errorMsg) ==
  \/ Includes(errorMsg, PatAPIKey)
  \/ Includes(errorMsg, PatAuthentication)
  \/ Includes(errorMsg, PatGoogleKey)

\* the errorMessage state: a fixed text followed by an interpolated message
Text(prefix, text) == [prefix |-> prefix, text |-> text]
NoError == Text("", <<>>)
SessionError(errorMsg) == Text("Session error: ", errorMsg)
VapiUnavailable == Text("VAPI service is not available. Please check configuration.", <<>>)

\* the catch block of handleCall: the message shown for a failed start
StartFailureMessage(errorMessage) ==
  IF Includes(errorMessage, PatAPIKey) \/ Includes(errorMessage, PatAuthentication)
    THEN Text("API key error: ", errorMessage)
  ELSE IF Includes(errorMessage, PatTimeout)
    THEN Text("Connection timeout. The service is taking too long to respond.", <<>>)
  ELSE IF Includes(errorMessage, PatMaxReconnect)
    THEN Text("Could not establish a stable connection after multiple attempts.", <<>>)
  ELSE Text("Failed to start defense session: ", errorMessage)

(* ------------------------------- state -------------------------------- *)
VARIABLES
  type,                 \* prop: "generate" (preparation page) or "interview"
  isVapiAvailable,      \* state set once by the mount effect (lines 100-128)
  st,                   \* component state as of the last commit
  mounted,              \* the component is mounted
  navigated,            \* router.push has been called
  reconnectAttemptsRef, \* reconnectAttemptsRef.current
  reconnectTimeoutRef,  \* reconnectTimeoutRef.current: 0 (null) or a timer id
  reconnectTimers,      \* pending 5 s reconnect timers: [id, c, preStop]
  autoStartTimers,      \* pending 2 s timers of onCallEnd: closures
  feedbackTimers,       \* pending 1.5 s timers of onCallEnd: transcripts
  onCallEndPc,          \* the awaiting onCallEnd of the preparation phase
  handleCallPc,         \* the handleCall awaiting getInterviewsByUserId
  submitPc,             \* the awaiting handleSubmitDefenseInfo
  updatesInFlight,      \* the sessions of the updateDefenseSession calls that
                        \* onProjectInfoReceived awaits
  callStartsInFlight,   \* vapi.start promises awaited by handleCall
  feedbackInFlight,     \* createFeedback calls awaited by handleGenerateFeedback
  vapiCall,             \* the transport's call
  hist,                 \* history of the run, read by the properties only
  store,                \* the session store and the last updateDefenseSession
                        \* call on it (general.action.ts)
  generation,           \* one call of generateQuestionsFromDocument
                        \* (question-generator.ts)
  records,              \* the interviews and feedback collections, the
                        \* listing and the question hand-over that work on
                        \* them, and the last server action or handler run
  extraction,           \* one call of processDocument
  updates,              \* one session document and the calls of
                        \* updateDefenseSession running on it concurrently
  transport             \* the EnhancedVapi object: its fields and the
                        \* position of its start call

\* the state of the Agent component and of its transport
agentVars == <<type, isVapiAvailable, st, mounted, navigated,
               reconnectAttemptsRef, reconnectTimeoutRef, reconnectTimers,
               autoStartTimers, feedbackTimers, onCallEndPc, handleCallPc,
               submitPc, updatesInFlight, callStartsInFlight,
               feedbackInFlight, vapiCall, hist>>

\* the state the server actions and library functions work on
libVars == <<store, generation, records, extraction, updates, transport>>

vars == <<agentVars, libVars>>

\* what handleCall reads of the render that created it (type, userId and
\* isVapiAvailable are the same in every render)
Closure(v) ==
  [ sessionPhase     |-> v.sessionPhase,
    currentSessionId |-> v.currentSessionId,
    isRetryAttempt   |-> v.isRetryAttempt ]

\* useState initial values, lines 58-89
InitialState(t) ==
  [ callStatus       |-> "INACTIVE",
    messages         |-> <<>>,
    errorMessage     |-> NoError,
    isReconnecting   |-> FALSE,
    currentSessionId |-> IF t = "generate" THEN "" ELSE "s1",
    isRetryAttempt   |-> FALSE,
    showForm         |-> (t = "generate"),
    submittingForm   |-> FALSE,
    sessionPhase     |-> IF t = "generate" THEN "preparation" ELSE "examination",
    readyForFeedback |-> FALSE ]

\* what the properties need to remember of a run; the first nine fields
\* describe the step just taken only
InitialHistory ==
  [ started     |-> "none",  \* the caller whose handleCall or submit invoked
                             \* vapi.start
    startPhase  |-> "none",  \* the phase it handed over
    startStatus |-> "none",  \* callStatus when that handleCall was entered
    metadata    |-> "none",  \* where the project metadata it handed over came
                             \* from: "session" (read from the fetched session),
                             \* "missing" (fetched, session not found) or
                             \* "skipped" (no fetch: the initial values of
                             \* lines 813-816)
    scheduled   |-> FALSE,   \* onError scheduled a reconnect timer
    replaced    |-> FALSE,   \* and cleared a pending one first
    cancelled   |-> FALSE,   \* the effect cleanup cleared a pending timer
    errorMsg    |-> <<>>,    \* the errorMsg onError worked with
    message     |-> [type |-> "none", transcriptType |-> "none", role |-> "none",
                     json |-> [kind |-> "none", fields |-> {}]],
                             \* the message onMessage handled
    written     |-> {},      \* the keys of the data onProjectInfoReceived
                             \* handed to updateDefenseSession
    reconnects  |-> 0,       \* reconnect timers scheduled since the last call-start
    prepError   |-> FALSE,   \* an error arrived while the 2 s auto start is due
    stopThrew   |-> FALSE,   \* an exception left handleDisconnect
    messageThrew |-> FALSE,  \* an exception left onMessage
    staleFire   |-> FALSE,   \* a timer that was pending at a stop fired later
    ended       |-> FALSE ]  \* a call-end of the examination phase of this
                             \* session has been handled

InitAgent ==
  /\ type \in {"generate", "interview"}
  /\ isVapiAvailable \in BOOLEAN
  /\ st = InitialState(type)
  /\ mounted = TRUE
  /\ navigated = FALSE
  /\ reconnectAttemptsRef = 0
  /\ reconnectTimeoutRef = 0
  /\ reconnectTimers = {}
  /\ autoStartTimers = <<>>
  /\ feedbackTimers = <<>>
  /\ onCallEndPc = <<>>
  /\ handleCallPc = <<>>
  /\ submitPc = "idle"
  /\ updatesInFlight = <<>>
  /\ callStartsInFlight = 0
  /\ feedbackInFlight = <<>>
  /\ vapiCall = "idle"
  /\ hist = InitialHistory

(* ------------------------ React commit machinery ---------------------- *)
\* a state setter of an unmounted component does nothing
Commit(new) == IF mounted THEN new ELSE st

\* React re-renders when a handler left a changed value or a new array
Rerendered(new, newArray) == mounted /\ (new # st \/ newArray)

\* setMessages((prev) => [...prev, m])
AppendMessage(s, role) == [s EXCEPT !.messages = Append(@, role)]
Room(n) == Len(st.messages) + n <= MaxMessages

\* variant: the cleanup leaves the timer alone
ClearedByCleanup_Nothing(timers, ref) == timers

\* cleanup of the subscription effect, lines 524-527: clearTimeout of the
\* timer the ref names; the ref itself is left as it is
ClearedByCleanup(timers, ref) == {t \in timers : t.id # ref}

\* variant: onError schedules without clearing
ClearedByOnError_Nothing(timers, ref) == timers

\* clearTimeout(reconnectTimeoutRef.current) of onError, lines 476-478
ClearedByOnError(timers, ref) == {t \in timers : t.id # ref}

\* the reconnect timers left when a handler that produced the state new
\* (and the timers and ref given) has returned and React has committed
AfterCommit(timers, ref, new, newArray) ==
  IF Rerendered(new, newArray) THEN ClearedByCleanup(timers, ref) ELSE timers

Step(h) ==
  [h EXCEPT !.started = "none", !.startPhase = "none", !.startStatus = "none",
            !.metadata = "none",
            !.scheduled = FALSE, !.replaced = FALSE, !.cancelled = FALSE,
            !.errorMsg = <<>>,
            !.message = [type |-> "none", transcriptType |-> "none",
                         role |-> "none", json |-> [kind |-> "none", fields |-> {}]],
            !.written = {}]

\* the history after such a commit
Committed(h, timers, ref, new, newArray) ==
  [h EXCEPT !.cancelled = (AfterCommit(timers, ref, new, newArray) # timers)]

\* the navigation requested by router.push completes: the component
\* unmounts, the effect cleanup runs one last time and React discards the
\* component state (closures and refs live on in timers and promises)
Unmount ==
  /\ mounted /\ navigated
  /\ mounted' = FALSE
  /\ st' = InitialState(type)
  /\ reconnectTimers' = ClearedByCleanup(reconnectTimers, reconnectTimeoutRef)
  /\ hist' = [Step(hist) EXCEPT !.cancelled = (reconnectTimers' # reconnectTimers)]
  /\ UNCHANGED <<libVars, type, isVapiAvailable, navigated,
                 reconnectAttemptsRef, reconnectTimeoutRef, autoStartTimers,
                 feedbackTimers, onCallEndPc, handleCallPc, submitPc,
                 updatesInFlight, callStartsInFlight, feedbackInFlight,
                 vapiCall>>

\* the user opens the session again from the session list (router.push of
\* `/interview/${session.id}`): a new Agent is mounted for the same session,
\* every useState and useRef starts from its initial value.  Taken once
\* nothing of the earlier instance is pending any more.
Remount ==
  /\ ~mounted /\ type = "interview"
  /\ reconnectTimers = {} /\ autoStartTimers = <<>> /\ feedbackTimers = <<>>
  /\ onCallEndPc = <<>> /\ handleCallPc = <<>> /\ submitPc = "idle"
  /\ updatesInFlight = <<>> /\ callStartsInFlight = 0
  /\ feedbackInFlight = <<>> /\ vapiCall = "idle"
  /\ mounted' = TRUE
  /\ navigated' = FALSE
  /\ st' = InitialState(type)
  /\ reconnectAttemptsRef' = 0
  /\ reconnectTimeoutRef' = 0
  /\ hist' = [Step(hist) EXCEPT !.reconnects = 0, !.prepError = FALSE]
  /\ UNCHANGED <<libVars, type, isVapiAvailable, reconnectTimers,
                 autoStartTimers, feedbackTimers, onCallEndPc, handleCallPc,
                 submitPc, updatesInFlight, callStartsInFlight,
                 feedbackInFlight, vapiCall>>

(* ------------------------------ handleCall ---------------------------- *)
\* lines 818-823: the first handleCall of the examination phase re-fetches
\* the session; userId is always passed by the pages
FetchesSession(c) ==
  c.sessionPhase = "examination" /\ c.currentSessionId # "" /\ ~c.isRetryAttempt

\* lines 885-972, reached directly or after the fetch: the counter reset of
\* line 923, the examiner message and vapi.start.  NEXT_PUBLIC_VAPI_WORKFLOW_ID
\* is set whenever isVapiAvailable is (lines 109-114), so line 926 never throws.
\* r carries the values handleCall has produced so far, entry the callStatus
\* it was entered with.
StartCall(c, r, by, entry) ==
  [ r EXCEPT
      !.st = IF c.sessionPhase = "examination" THEN AppendMessage(@, "system") ELSE @,
      !.newArray = @ \/ (c.sessionPhase = "examination"),
      !.attempts = 0,
      !.inFlight = @ + 1,
      !.vapi = "starting",
      !.hist = [@ EXCEPT !.started = by, !.startPhase = c.sessionPhase,
                         !.startStatus = entry, !.metadata = r.fetch] ]

\* handleCall up to its first await, lines 793-823, run by the closure c on
\* the values r; by names the caller
handleCall(c, r, by) ==
  IF type = "generate"
    THEN [r EXCEPT !.st.showForm = TRUE]
  ELSE IF ~isVapiAvailable
    THEN [r EXCEPT !.st.errorMessage = VapiUnavailable,
                   !.st.callStatus = "ERROR"]
  ELSE LET r1 == [r EXCEPT !.st.callStatus = "CONNECTING",
                           !.st.errorMessage = NoError,
                           !.st.isRetryAttempt = TRUE]
       IN IF FetchesSession(c)
            THEN [r1 EXCEPT !.pc = <<[c |-> c, by |-> by, entry |-> r.st.callStatus]>>]
            ELSE StartCall(c, r1, by, r.st.callStatus)

\* the bounds a call of handleCall by closure c must respect
CanHandleCall(c) ==
  \/ type = "generate"
  \/ ~isVapiAvailable
  \/ /\ handleCallPc = <<>>
     /\ callStartsInFlight < MaxStartsInFlight
     /\ Room(2)

\* the values handleCall starts from
Running(h) ==
  [ st |-> st, newArray |-> FALSE, attempts |-> reconnectAttemptsRef,
    inFlight |-> callStartsInFlight, vapi |-> vapiCall, pc |-> handleCallPc,
    fetch |-> "skipped", hist |-> h ]

\* variant: the button is also offered while a call is active
StartButtonEnabled_DuringCall(v) ==
  /\ ~v.showForm
  /\ ~(v.callStatus = "CONNECTING" \/ v.isReconnecting)

\* the start button, line 1189; disabled as of lines 1182-1193
StartButtonEnabled(v) ==
  /\ ~v.showForm
  /\ v.callStatus # "ACTIVE"
  /\ ~(v.callStatus = "CONNECTING" \/ v.isReconnecting)

ClickStart ==
  /\ mounted
  /\ StartButtonEnabled(st)
  /\ CanHandleCall(Closure(st))
  /\ LET r == handleCall(Closure(st), Running(Step(hist)), "button")
     IN /\ st' = r.st
        /\ reconnectTimers' =
             AfterCommit(reconnectTimers, reconnectTimeoutRef, r.st, r.newArray)
        /\ reconnectAttemptsRef' = r.attempts
        /\ callStartsInFlight' = r.inFlight
        /\ vapiCall' = r.vapi
        /\ handleCallPc' = r.pc
        /\ hist' = Committed(r.hist, reconnectTimers, reconnectTimeoutRef,
                             r.st, r.newArray)
  /\ UNCHANGED <<libVars, type, isVapiAvailable, mounted, navigated, reconnectTimeoutRef,
                 autoStartTimers, feedbackTimers, onCallEndPc, submitPc,
                 updatesInFlight, feedbackInFlight>>

\* getInterviewsByUserId of line 826 returns: lines 827-883 (the session is
\* found or not), then the start
HandleCallFetched ==
  /\ handleCallPc # <<>>
  /\ \E found \in BOOLEAN :
       /\ Room(IF found THEN 2 ELSE 1)
       /\ LET p == handleCallPc[1]
              r0 == [Running(Step(hist)) EXCEPT
                       !.st = IF found THEN AppendMessage(@, "system") ELSE @,
                       !.newArray = found, !.pc = <<>>,
                       !.fetch = IF found THEN "session" ELSE "missing"]
              r == StartCall(p.c, r0, p.by, p.entry)
          IN /\ st' = Commit(r.st)
             /\ reconnectTimers' =
                  AfterCommit(reconnectTimers, reconnectTimeoutRef, r.st, r.newArray)
             /\ reconnectAttemptsRef' = r.attempts
             /\ callStartsInFlight' = r.inFlight
             /\ vapiCall' = r.vapi
             /\ handleCallPc' = r.pc
             /\ hist' = Committed(r.hist, reconnectTimers, reconnectTimeoutRef,
                                  r.st, r.newArray)
  /\ UNCHANGED <<libVars, type, isVapiAvailable, mounted, navigated,
                 reconnectTimeoutRef, autoStartTimers,
                 feedbackTimers, onCallEndPc, submitPc, updatesInFlight,
                 feedbackInFlight>>

(* ------------------------- handleGenerateFeedback --------------------- *)
\* variant: the threshold off by one
EnoughMessages_OneLess(messages) == Len(messages) >= MinFeedbackMessages - 1

EnoughMessages(messages) == Len(messages) >= MinFeedbackMessages

\* lines 147-162 up to the await of createFeedback; n is [nav, inFlight, hist]
handleGenerateFeedback(messages, n, by) ==
  IF ~EnoughMessages(messages)
    THEN [n EXCEPT !.nav = TRUE]
    ELSE [n EXCEPT !.inFlight = Append(@, [transcript |-> messages, by |-> by])]

Feedback(h) == [nav |-> navigated, inFlight |-> feedbackInFlight, hist |-> h]

\* createFeedback returns or throws: lines 164-176, every branch navigates
FeedbackReturned ==
  /\ feedbackInFlight # <<>>
  /\ feedbackInFlight' = Tail(feedbackInFlight)
  /\ navigated' = TRUE
  /\ hist' = Step(hist)
  /\ UNCHANGED <<libVars, type, isVapiAvailable, st, mounted,
                 reconnectAttemptsRef, reconnectTimeoutRef, reconnectTimers,
                 autoStartTimers, feedbackTimers, onCallEndPc, handleCallPc,
                 submitPc, updatesInFlight, callStartsInFlight, vapiCall>>

(* --------------------------- transport events ------------------------- *)
\* the transport joins the call: the pending vapi.start promises resolve
\* (their continuations, lines 745-765 and 975, set nothing a handler
\* reads) and call-start is emitted: onCallStart, lines 260-265
OnCallStart ==
  /\ vapiCall = "starting"
  /\ vapiCall' = "live"
  /\ callStartsInFlight' = 0
  /\ submitPc' = IF submitPc = "starting" THEN "idle" ELSE submitPc
  /\ LET new == [st EXCEPT !.callStatus = "ACTIVE",
                           !.errorMessage = NoError,
                           !.isReconnecting = FALSE]
         h == [Step(hist) EXCEPT !.reconnects = 0]
     IN IF mounted
          THEN /\ st' = new
               /\ reconnectAttemptsRef' = 0
               /\ reconnectTimers' =
                    AfterCommit(reconnectTimers, reconnectTimeoutRef, new, FALSE)
               /\ hist' = Committed(h, reconnectTimers, reconnectTimeoutRef,
                                    new, FALSE)
          ELSE /\ hist' = h
               /\ UNCHANGED <<st, reconnectAttemptsRef, reconnectTimers>>
  /\ UNCHANGED <<libVars, type, isVapiAvailable, mounted, navigated,
                 reconnectTimeoutRef, autoStartTimers,
                 feedbackTimers, onCallEndPc, handleCallPc,
                 updatesInFlight, feedbackInFlight>>

\* the `messages` the subscribed onCallEnd and onError close over when an
\* event arrives.  The handlers are re-subscribed by the effect of lines
\* 509-529 after the render that follows setMessages; an event that arrives
\* right after a transcript message, before that effect has run, is handled
\* by the closures of the render before, which lack the turn just appended.
ClosureMessages(v, h) ==
  IF /\ h.message.type = "transcript" /\ h.message.transcriptType = "final"
     /\ v.messages # <<>>
    THEN {v.messages, SubSeq(v.messages, 1, Len(v.messages) - 1)}
    ELSE {v.messages}

\* variant: a call-end of the examination goes back to preparation
PhaseAfterCallEnd_Toggle(phase) ==
  IF phase = "preparation" THEN "examination" ELSE "preparation"

\* lines 273-276: the phase a call-end leaves behind
PhaseAfterCallEnd(phase) ==
  IF phase = "preparation" THEN "examination" ELSE phase

\* variant: the marker is not consulted
MarkedCallEnd_AnyExamination(v) == v.sessionPhase = "examination"

\* line 364: the call-end of an examination that was ended before
MarkedCallEnd(v) == v.sessionPhase = "examination" /\ v.readyForFeedback

\* the call ends and call-end is emitted: onCallEnd up to its first await,
\* lines 267-297 and 364-383
OnCallEnd ==
  /\ vapiCall \in {"live", "stopping"}
  /\ vapiCall' = "idle"
  /\ \E messages \in ClosureMessages(st, hist) :
     LET s1 == [st EXCEPT !.callStatus = "FINISHED", !.isReconnecting = FALSE]
         marked == MarkedCallEnd(st)
         s2 == [s1 EXCEPT !.sessionPhase = PhaseAfterCallEnd(st.sessionPhase)]
         new == IF st.sessionPhase = "preparation" \/ marked
                  THEN s2
                  ELSE [s2 EXCEPT !.readyForFeedback = TRUE]
         h == Step(hist)
     IN IF ~mounted
          THEN /\ hist' = h
               /\ UNCHANGED <<st, reconnectAttemptsRef, reconnectTimers,
                              onCallEndPc, feedbackTimers, navigated>>
        ELSE /\ st' = new
             /\ reconnectAttemptsRef' = 0
             /\ reconnectTimers' =
                  AfterCommit(reconnectTimers, reconnectTimeoutRef, new, FALSE)
             /\ IF st.sessionPhase = "preparation"
                  THEN /\ onCallEndPc = <<>>
                       /\ onCallEndPc' = <<[pc |-> "awaitUpdate", c |-> Closure(st)]>>
                       /\ hist' = Committed([h EXCEPT !.prepError = FALSE],
                                            reconnectTimers, reconnectTimeoutRef,
                                            new, FALSE)
                       /\ UNCHANGED <<feedbackTimers, navigated>>
                ELSE /\ hist' = Committed([h EXCEPT !.ended = TRUE],
                                          reconnectTimers, reconnectTimeoutRef,
                                          new, FALSE)
                     /\ UNCHANGED onCallEndPc
                     /\ IF marked /\ EnoughMessages(messages)
                                  /\ st.currentSessionId # ""
                          THEN /\ Len(feedbackTimers) < MaxFeedbackTimers
                               /\ feedbackTimers' = Append(feedbackTimers, messages)
                               /\ UNCHANGED navigated
                          ELSE /\ navigated' = TRUE
                               /\ UNCHANGED feedbackTimers
  /\ UNCHANGED <<libVars, type, isVapiAvailable, mounted,
                 reconnectTimeoutRef, autoStartTimers,
                 handleCallPc, submitPc, updatesInFlight, callStartsInFlight,
                 feedbackInFlight>>

\* updateDefenseSession of line 281 returns or throws: lines 289-311, the
\* transition message (and isTransitioning, which no handler branches on)
OnCallEndUpdated ==
  /\ onCallEndPc # <<>> /\ onCallEndPc[1].pc = "awaitUpdate"
  /\ Room(1)
  /\ LET c == onCallEndPc[1].c
         new == AppendMessage(st, "system")
     IN /\ st' = Commit(new)
        /\ reconnectTimers' =
             AfterCommit(reconnectTimers, reconnectTimeoutRef, new, TRUE)
        /\ hist' = Committed(Step(hist), reconnectTimers, reconnectTimeoutRef,
                             new, TRUE)
        /\ IF c.currentSessionId # ""
             THEN /\ onCallEndPc' = <<[pc |-> "awaitFetch", c |-> c]>>
                  /\ UNCHANGED autoStartTimers
             ELSE /\ onCallEndPc' = <<>>
                  /\ autoStartTimers' = Append(autoStartTimers, c)
  /\ UNCHANGED <<libVars, type, isVapiAvailable, mounted, navigated,
                 reconnectAttemptsRef, reconnectTimeoutRef,
                 feedbackTimers, handleCallPc, submitPc, updatesInFlight,
                 callStartsInFlight, feedbackInFlight, vapiCall>>

\* getInterviewsByUserId of line 314 returns or throws: lines 315-363, the
\* sessions are stored (a new array when the call returned them) and the
\* 2 s timer is set
OnCallEndFetched ==
  /\ onCallEndPc # <<>> /\ onCallEndPc[1].pc = "awaitFetch"
  /\ \E fetched \in BOOLEAN :
       /\ reconnectTimers' =
            AfterCommit(reconnectTimers, reconnectTimeoutRef, st, fetched)
       /\ hist' = Committed(Step(hist), reconnectTimers, reconnectTimeoutRef,
                            st, fetched)
  /\ autoStartTimers' = Append(autoStartTimers, onCallEndPc[1].c)
  /\ onCallEndPc' = <<>>
  /\ UNCHANGED <<libVars, type, isVapiAvailable, st, mounted, navigated,
                 reconnectAttemptsRef, reconnectTimeoutRef,
                 feedbackTimers, handleCallPc, submitPc, updatesInFlight,
                 callStartsInFlight, feedbackInFlight, vapiCall>>

\* the json of a message: text that does not parse, the text "null", or an
\* object holding the project fields named (with non-empty values)
ProjectFields == {"title", "academicLevel", "technologies", "focusRatio"}
NoPayload == [kind |-> "none", fields |-> {}]
Payloads ==
  { [kind |-> k, fields |-> {}] : k \in {"malformed", "null"} }
  \cup { [kind |-> "object", fields |-> f] :
           f \in { {}, {"title"}, ProjectFields \ {"title"} } }

\* the messages the transport delivers
Messages ==
  [type : {"transcript"}, transcriptType : {"final", "partial"},
   role : {"user", "assistant", "tool"}, json : {NoPayload}]
  \cup [type : {"json"}, transcriptType : {"none"}, role : {"none"},
        json : Payloads]

\* the role of the saved turn, lines 389-394
RoleOf_KeepAll(role) == role
RoleOf(role) ==
  IF role = "user" THEN "user"
  ELSE IF role = "assistant" THEN "assistant" ELSE "system"

\* variant: text that does not parse is read as an empty object
JSONParse_Lenient(json) ==
  [ threw |-> FALSE,
    truthy |-> json.kind \in {"object", "malformed"},
    fields |-> json.fields ]

\* JSON.parse(message.json) of line 183 and the test of line 189
JSONParse(json) ==
  [ threw |-> json.kind = "malformed",
    truthy |-> json.kind = "object",
    fields |-> json.fields ]

\* lines 191-217: the keys of updateData for the fields of projectInfo
UpdateData(fields) ==
  (IF "title" \in fields THEN {"role"} ELSE {})
  \cup (IF "academicLevel" \in fields THEN {"level", "type"} ELSE {})
  \cup (IF "technologies" \in fields THEN {"techstack"} ELSE {})
  \cup (IF "focusRatio" \in fields THEN {"focusRatio"} ELSE {})
  \cup {"updatedAt", "finalized"}

\* onProjectInfoReceived up to its await of updateDefenseSession, lines
\* 179-227: the sessions with an update in flight, the keys of the data
\* written now; the catch of line 252 keeps what JSON.parse throws inside
onProjectInfoReceived(message, sessionId, inFlight) ==
  LET projectInfo == JSONParse(message.json)
      updateData == UpdateData(projectInfo.fields)
  IN IF sessionId # "" /\ message.json.kind # "none"
          /\ ~projectInfo.threw /\ projectInfo.truthy
          /\ Cardinality(updateData) > 0
       THEN [ inFlight |-> Append(inFlight, sessionId),
              written |-> updateData, threw |-> FALSE ]
       ELSE [ inFlight |-> inFlight, written |-> {}, threw |-> FALSE ]

\* onMessage, lines 386-407
OnMessage ==
  /\ mounted
  /\ vapiCall = "live"
  /\ \E message \in Messages :
       LET h == [Step(hist) EXCEPT !.message = message]
       IN IF message.type = "transcript" /\ message.transcriptType = "final"
            THEN /\ Room(1)
                 /\ st' = AppendMessage(st, RoleOf(message.role))
                 /\ reconnectTimers' =
                      AfterCommit(reconnectTimers, reconnectTimeoutRef, st', TRUE)
                 /\ hist' = Committed(h, reconnectTimers,
                                      reconnectTimeoutRef, st', TRUE)
                 /\ UNCHANGED updatesInFlight
          ELSE IF message.type = "json"
            THEN LET r == onProjectInfoReceived(message, st.currentSessionId,
                                                updatesInFlight)
                 IN /\ Len(r.inFlight) <= MaxUpdatesInFlight
                    /\ updatesInFlight' = r.inFlight
                    /\ hist' = [h EXCEPT !.messageThrew = r.threw,
                                         !.written = r.written]
                    /\ UNCHANGED <<st, reconnectTimers>>
          ELSE /\ hist' = h
               /\ UNCHANGED <<st, reconnectTimers, updatesInFlight>>
  /\ UNCHANGED <<libVars, type, isVapiAvailable, mounted, navigated,
                 reconnectAttemptsRef, reconnectTimeoutRef,
                 autoStartTimers, feedbackTimers, onCallEndPc, handleCallPc,
                 submitPc, callStartsInFlight, feedbackInFlight, vapiCall>>

\* the sequence without its i-th element
Without(seq, i) == SubSeq(seq, 1, i - 1) \o SubSeq(seq, i + 1, Len(seq))

\* an updateDefenseSession of line 224 returns: lines 229-250, on success
\* the sessions are re-fetched and the summary message is appended
ProjectInfoUpdated ==
  \E i \in 1..Len(updatesInFlight) :
    /\ updatesInFlight' = Without(updatesInFlight, i)
    /\ \E success \in BOOLEAN :
         IF success
           THEN LET new == AppendMessage(st, "system")
                IN /\ Room(1)
                   /\ st' = Commit(new)
                   /\ reconnectTimers' =
                        AfterCommit(reconnectTimers, reconnectTimeoutRef, new, TRUE)
                   /\ hist' = Committed(Step(hist), reconnectTimers,
                                        reconnectTimeoutRef, new, TRUE)
           ELSE /\ hist' = Step(hist)
                /\ UNCHANGED <<st, reconnectTimers>>
    /\ UNCHANGED <<libVars, type, isVapiAvailable, mounted, navigated,
                   reconnectAttemptsRef, reconnectTimeoutRef,
                   autoStartTimers, feedbackTimers, onCallEndPc, handleCallPc,
                   submitPc, callStartsInFlight, feedbackInFlight, vapiCall>>

\* the id setTimeout returns: the first one no pending timer carries
NewTimerId(timers) ==
  CHOOSE i \in 1..MaxTimers :
    /\ \A t \in timers : t.id # i
    /\ \A j \in 1..(i - 1) : \E t \in timers : t.id = j

\* onError, lines 419-507.  The 15 s "Connection timeout" of
\* EnhancedVapi.start is emitted only while a start is pending.
OnError ==
  /\ mounted
  /\ vapiCall # "idle"
  /\ \E error \in ErrorEvents, messages \in ClosureMessages(st, hist) :
       /\ error = MsgConnectionTimeout => vapiCall = "starting"
       /\ LET errorMsg == ErrorMsgOf(error)
              s1 == [st EXCEPT !.errorMessage = SessionError(errorMsg),
                               !.callStatus = "ERROR"]
              h == [Step(hist) EXCEPT
                      !.prepError = @ \/ onCallEndPc # <<>> \/ autoStartTimers # <<>>,
                      !.errorMsg = errorMsg]
              reconnects == ~isAPIKeyError(errorMsg) /\ isConnectionError(errorMsg)
                              /\ reconnectAttemptsRef < maxReconnectAttempts
              feedback == /\ ~isAPIKeyError(errorMsg) /\ ~isConnectionError(errorMsg)
                          /\ st.sessionPhase = "examination"
                          /\ st.readyForFeedback
                          /\ EnoughMessages(messages)
                          /\ st.currentSessionId # ""
          IN IF reconnects
               THEN LET kept == ClearedByOnError(reconnectTimers, reconnectTimeoutRef)
                        id == NewTimerId(kept)
                        new == [s1 EXCEPT !.isReconnecting = TRUE,
                                          !.isRetryAttempt = TRUE]
                        timers == kept \cup {[id |-> id, c |-> Closure(st),
                                              preStop |-> FALSE]}
                    IN /\ Cardinality(kept) < MaxTimers
                       /\ st' = new
                       /\ reconnectAttemptsRef' = reconnectAttemptsRef + 1
                       /\ reconnectTimeoutRef' = id
                       /\ reconnectTimers' = AfterCommit(timers, id, new, FALSE)
                       /\ hist' = Committed([h EXCEPT
                                               !.reconnects = IF @ < MaxEpisode
                                                                THEN @ + 1 ELSE @,
                                               !.scheduled = TRUE,
                                               !.replaced = (kept # reconnectTimers)],
                                            timers, id, new, FALSE)
                       /\ UNCHANGED <<navigated, feedbackInFlight>>
             ELSE LET n == IF feedback
                             THEN handleGenerateFeedback(messages, Feedback(h), "error")
                             ELSE [Feedback(h) EXCEPT !.nav = TRUE]
                  IN /\ Len(n.inFlight) <= MaxFeedbackInFlight
                     /\ st' = s1
                     /\ navigated' = n.nav
                     /\ feedbackInFlight' = n.inFlight
                     /\ reconnectTimers' =
                          AfterCommit(reconnectTimers, reconnectTimeoutRef, s1, FALSE)
                     /\ hist' = Committed(n.hist, reconnectTimers,
                                          reconnectTimeoutRef, s1, FALSE)
                     /\ UNCHANGED <<reconnectAttemptsRef, reconnectTimeoutRef>>
  /\ UNCHANGED <<libVars, type, isVapiAvailable, mounted, autoStartTimers,
                 feedbackTimers, onCallEndPc, handleCallPc, submitPc,
                 updatesInFlight, callStartsInFlight, vapiCall>>

(* -------------------------------- timers ------------------------------ *)
\* the 5 s timer of onError fires, lines 481-484: handleCall of the render
\* that subscribed that onError, then setIsReconnecting(false)
ReconnectFire ==
  \E t \in reconnectTimers :
    /\ CanHandleCall(t.c)
    /\ LET h == [Step(hist) EXCEPT !.staleFire = @ \/ t.preStop]
           r == handleCall(t.c, Running(h), "reconnect")
           new == [r.st EXCEPT !.isReconnecting = FALSE]
           timers == reconnectTimers \ {t}
       IN /\ st' = Commit(new)
          /\ reconnectTimers' =
               AfterCommit(timers, reconnectTimeoutRef, new, r.newArray)
          /\ reconnectAttemptsRef' = r.attempts
          /\ callStartsInFlight' = r.inFlight
          /\ vapiCall' = r.vapi
          /\ handleCallPc' = r.pc
          /\ hist' = Committed(r.hist, timers, reconnectTimeoutRef, new, r.newArray)
    /\ UNCHANGED <<libVars, type, isVapiAvailable, mounted, navigated,
                   reconnectTimeoutRef, autoStartTimers, feedbackTimers,
                   onCallEndPc, submitPc, updatesInFlight, feedbackInFlight>>

\* the 2 s timer of onCallEnd fires, lines 342-363.  handleCall catches its
\* own failures, so the catch of line 349 is never entered
AutoStartFire ==
  /\ autoStartTimers # <<>>
  /\ CanHandleCall(Head(autoStartTimers))
  /\ LET c == Head(autoStartTimers)
         r == handleCall(c, Running(Step(hist)), "auto")
     IN /\ st' = Commit(r.st)
        /\ reconnectTimers' =
             AfterCommit(reconnectTimers, reconnectTimeoutRef, r.st, r.newArray)
        /\ reconnectAttemptsRef' = r.attempts
        /\ callStartsInFlight' = r.inFlight
        /\ vapiCall' = r.vapi
        /\ handleCallPc' = r.pc
        /\ hist' = Committed(r.hist, reconnectTimers, reconnectTimeoutRef,
                             r.st, r.newArray)
  /\ autoStartTimers' = Tail(autoStartTimers)
  /\ UNCHANGED <<libVars, type, isVapiAvailable, mounted, navigated,
                 reconnectTimeoutRef, feedbackTimers,
                 onCallEndPc, submitPc, updatesInFlight, feedbackInFlight>>

\* the 1.5 s timer of onCallEnd fires, lines 369-371
FeedbackFire ==
  /\ feedbackTimers # <<>>
  /\ Len(feedbackInFlight) < MaxFeedbackInFlight
  /\ LET n == handleGenerateFeedback(Head(feedbackTimers),
                                     Feedback(Step(hist)), "callEnd")
     IN /\ navigated' = n.nav
        /\ feedbackInFlight' = n.inFlight
        /\ hist' = n.hist
  /\ feedbackTimers' = Tail(feedbackTimers)
  /\ UNCHANGED <<libVars, type, isVapiAvailable, st, mounted,
                 reconnectAttemptsRef, reconnectTimeoutRef, reconnectTimers,
                 autoStartTimers, onCallEndPc, handleCallPc, submitPc,
                 updatesInFlight, callStartsInFlight, vapiCall>>

(* --------------------------------- stop ------------------------------- *)
\* EnhancedVapi.stop, question-generator.ts lines 254-274: whatever
\* super.stop() does, the exception stays inside
EnhancedVapiStop(call, superStopThrows) ==
  [ call |-> IF call = "idle" THEN "idle" ELSE "stopping", threw |-> FALSE ]

\* handleDisconnect, lines 1010-1019, on the End button of line 1216, which
\* is rendered only while callStatus is ACTIVE
HandleDisconnect ==
  /\ mounted
  /\ ~st.showForm /\ st.callStatus = "ACTIVE"
  /\ \E superStopThrows \in BOOLEAN :
       LET new == [st EXCEPT !.callStatus = "FINISHED", !.isReconnecting = FALSE]
           stop == EnhancedVapiStop(vapiCall, superStopThrows)
           marked == {[t EXCEPT !.preStop = TRUE] : t \in reconnectTimers}
       IN /\ st' = new
          /\ reconnectAttemptsRef' = 0
          /\ vapiCall' = stop.call
          /\ reconnectTimers' = AfterCommit(marked, reconnectTimeoutRef, new, FALSE)
          /\ hist' = Committed([Step(hist) EXCEPT !.stopThrew = stop.threw],
                               marked, reconnectTimeoutRef, new, FALSE)
  /\ UNCHANGED <<libVars, type, isVapiAvailable, mounted, navigated, reconnectTimeoutRef,
                 autoStartTimers, feedbackTimers, onCallEndPc, handleCallPc,
                 submitPc, updatesInFlight, callStartsInFlight, feedbackInFlight>>

(* ------------------------ handleSubmitDefenseInfo --------------------- *)
\* the form button of lines 1082-1090 runs handleSubmitDefenseInfo up to the
\* await of createDefenseSession, lines 601-704 (without VAPI it only shows
\* a toast)
ClickSubmit ==
  /\ mounted
  /\ st.showForm /\ ~st.submittingForm
  /\ isVapiAvailable
  /\ submitPc = "idle"
  /\ LET new == [st EXCEPT !.submittingForm = TRUE]
     IN /\ st' = new
        /\ reconnectTimers' =
             AfterCommit(reconnectTimers, reconnectTimeoutRef, new, FALSE)
        /\ hist' = Committed(Step(hist), reconnectTimers, reconnectTimeoutRef,
                             new, FALSE)
  /\ submitPc' = "creating"
  /\ UNCHANGED <<libVars, type, isVapiAvailable, mounted, navigated, reconnectAttemptsRef,
                 reconnectTimeoutRef, autoStartTimers, feedbackTimers,
                 onCallEndPc, handleCallPc, updatesInFlight, callStartsInFlight,
                 feedbackInFlight, vapiCall>>

\* createDefenseSession returns (or an earlier step throws): lines 706-765,
\* the session id, the single preparation message, CONNECTING and vapi.start
\* of the preparation phase
SubmitCreated ==
  /\ submitPc = "creating"
  /\ \E success \in BOOLEAN :
       LET new == IF success
                    THEN [st EXCEPT !.currentSessionId = "s1",
                                    !.messages = <<"system">>,
                                    !.callStatus = "CONNECTING",
                                    !.showForm = FALSE]
                    ELSE [st EXCEPT !.submittingForm = FALSE]
           h == IF success
                  THEN [Step(hist) EXCEPT !.started = "form",
                                          !.startPhase = "preparation",
                                          !.startStatus = st.callStatus]
                  ELSE Step(hist)
       IN /\ st' = Commit(new)
          /\ reconnectTimers' =
               AfterCommit(reconnectTimers, reconnectTimeoutRef, new, success)
          /\ hist' = Committed(h, reconnectTimers, reconnectTimeoutRef, new, success)
          /\ vapiCall' = IF success THEN "starting" ELSE vapiCall
          /\ submitPc' = IF success THEN "starting" ELSE "idle"
  /\ UNCHANGED <<libVars, type, isVapiAvailable, mounted, navigated,
                 reconnectAttemptsRef, reconnectTimeoutRef,
                 autoStartTimers, feedbackTimers, onCallEndPc, handleCallPc,
                 updatesInFlight, callStartsInFlight, feedbackInFlight>>

\* a rejected start leaves no call behind
AfterRejection(call) == IF call = "starting" THEN "idle" ELSE call

\* vapi.start of line 744 rejects: lines 766-785
SubmitStartRejected ==
  /\ submitPc = "starting"
  /\ submitPc' = "idle"
  /\ LET new == [st EXCEPT !.submittingForm = FALSE, !.callStatus = "ERROR"]
     IN /\ st' = Commit(new)
        /\ reconnectTimers' =
             AfterCommit(reconnectTimers, reconnectTimeoutRef, new, FALSE)
        /\ hist' = Committed(Step(hist), reconnectTimers, reconnectTimeoutRef,
                             new, FALSE)
  /\ vapiCall' = AfterRejection(vapiCall)
  /\ UNCHANGED <<libVars, type, isVapiAvailable, mounted, navigated,
                 reconnectAttemptsRef, reconnectTimeoutRef,
                 autoStartTimers, feedbackTimers, onCallEndPc, handleCallPc,
                 updatesInFlight, callStartsInFlight, feedbackInFlight>>

(* --------------------------- vapi.start settles ----------------------- *)
\* vapi.start of line 945 rejects: the catch of lines 976-1006
CallStartRejected ==
  /\ callStartsInFlight > 0
  /\ callStartsInFlight' = callStartsInFlight - 1
  \* what the rejected vapi.start promise carries: EnhancedVapi.start
  \* rethrows a non-reconnectable error, or gives up after its own retries
  /\ \E error \in {MsgAPIKeyNetwork, MsgMaxReconnect} :
       LET new == [st EXCEPT !.callStatus = "ERROR",
                             !.errorMessage = StartFailureMessage(error)]
       IN /\ st' = Commit(new)
          /\ reconnectTimers' =
               AfterCommit(reconnectTimers, reconnectTimeoutRef, new, FALSE)
          /\ hist' = Committed(Step(hist), reconnectTimers, reconnectTimeoutRef,
                               new, FALSE)
  /\ vapiCall' = AfterRejection(vapiCall)
  /\ UNCHANGED <<libVars, type, isVapiAvailable, mounted, navigated,
                 reconnectAttemptsRef, reconnectTimeoutRef,
                 autoStartTimers, feedbackTimers, onCallEndPc, handleCallPc,
                 submitPc, updatesInFlight, feedbackInFlight>>

(* ---------------- the session store: updateDefenseSession ------------- *)
\* a key of the update data: absent, named with the value undefined, or
\* named with a value
Absent(default) == [named |-> FALSE, defined |-> FALSE, value |-> default]
Undefined(default) == [named |-> TRUE, defined |-> FALSE, value |-> default]
Given(value) == [named |-> TRUE, defined |-> TRUE, value |-> value]

\* the questions of a session: the list made from the document, or the ten
\* generated by updateDefenseSession from a title, a technology text and a
\* focus text (lines 357-368)
DocumentQuestions ==
  [from |-> "document", role |-> "", techstackStr |-> <<>>, focusStr |-> ""]
GeneratedQuestions(role, techstackStr, focusStr) ==
  [from |-> "update", role |-> role, techstackStr |-> techstackStr,
   focusStr |-> focusStr]

DataKeys == {"role", "techstack", "focusRatio", "questions"}
Data ==
  [role       : {Absent(""), Undefined(""), Given(""), Given("Thesis")},
   techstack  : {Absent(<<>>), Undefined(<<>>), Given(<<"react">>)},
   focusRatio : {Absent(""), Undefined(""), Given("60/40")},
   questions  : {Absent(DocumentQuestions), Undefined(DocumentQuestions),
                 Given(DocumentQuestions)}]
NoData ==
  [role |-> Absent(""), techstack |-> Absent(<<>>),
   focusRatio |-> Absent(""), questions |-> Absent(DocumentQuestions)]

\* the stored sessions the calls start from
Docs ==
  [exists : BOOLEAN, role : {"Draft"}, techstack : {<<>>, <<"vue">>},
   focusRatio : {""}, questions : {DocumentQuestions}, updatedAt : {0}]

\* Object.entries(data) filtered by value !== undefined, lines 315-322
sanitizedData_KeepUndefined(data) == { k \in DataKeys : data[k].named }
sanitizedData(data) == { k \in DataKeys : data[k].defined }

\* techstack.join(", "), the text standing for its parts, lines 345-351
TechstackStr(data, existingData) ==
  LET techstack == IF data.techstack.defined THEN data.techstack.value
                   ELSE existingData.techstack
  IN IF Len(techstack) > 0 THEN techstack ELSE <<"your technologies">>

\* lines 353-354
FocusStr(data, existingData) ==
  IF data.focusRatio.defined /\ data.focusRatio.value # ""
    THEN data.focusRatio.value
    ELSE IF existingData.focusRatio # "" THEN existingData.focusRatio
         ELSE "theory/practice balance"

\* data.role && !data.questions, line 343 (a list is truthy)
NeedsQuestions(data) ==
  /\ data.role.defined /\ data.role.value # ""
  /\ ~data.questions.defined

\* sessionRef.update({...sanitizedData, updatedAt}), lines 334-340
Updated_NoStamp(doc, data, now) ==
  LET keys == sanitizedData(data)
  IN [doc EXCEPT
        !.role = IF "role" \in keys THEN data.role.value ELSE @,
        !.techstack = IF "techstack" \in keys
                        THEN data.techstack.value ELSE @,
        !.focusRatio = IF "focusRatio" \in keys
                         THEN data.focusRatio.value ELSE @,
        !.questions = IF "questions" \in keys
                        THEN data.questions.value ELSE @]
Updated(doc, data, now) ==
  LET keys == sanitizedData(data)
  IN IF keys = {} THEN doc
     ELSE [doc EXCEPT
             !.role = IF "role" \in keys THEN data.role.value ELSE @,
             !.techstack = IF "techstack" \in keys
                             THEN data.techstack.value ELSE @,
             !.focusRatio = IF "focusRatio" \in keys
                              THEN data.focusRatio.value ELSE @,
             !.questions = IF "questions" \in keys
                             THEN data.questions.value ELSE @,
             !.updatedAt = now]

\* updateDefenseSession, lines 308-378: the stored session after the call
\* and the success it returns
updateDefenseSession(doc, data, now, throws) ==
  IF throws = "get" \/ ~doc.exists
    THEN [doc |-> doc, success |-> FALSE]
  ELSE IF throws = "update" /\ sanitizedData(data) # {}
    THEN [doc |-> doc, success |-> FALSE]
  ELSE LET doc1 == Updated(doc, data, now)
       IN IF ~NeedsQuestions(data)
            THEN [doc |-> doc1, success |-> TRUE]
          ELSE IF throws = "questions"
            THEN [doc |-> doc1, success |-> FALSE]
          ELSE [doc |-> [doc1 EXCEPT !.questions =
                           GeneratedQuestions(data.role.value,
                                              TechstackStr(data, doc),
                                              FocusStr(data, doc))],
                success |-> TRUE]

\* the store before any call
InitialStore(doc) ==
  [doc |-> doc, now |-> 0,
   call |-> [made |-> FALSE, data |-> NoData, success |-> FALSE]]

(* ------------- question-generator.ts: generateQuestionsFromDocument ---- *)
\* the lines an evaluator response is made of: blank, a question with
\* spaces around it, text that is no question
Responses ==
  UNION { [1..n -> { <<" ">>, <<" ", "a", "?", " ">>, <<"b">> }] :
            n \in 1..MaxLines }

\* the technologies parameter: no technology, one, two
Technologies == {<<>>, <<"react">>, <<"react", "node">>}

RECURSIVE Join(_)
\* technologies.join(", "), lines 38 and 123: the names with ", " between
Join(technologies) ==
  IF Len(technologies) <= 1 THEN technologies
  ELSE <<Head(technologies), ", ">> \o Join(Tail(technologies))

\* techString, lines 50-51
techString(technologies) ==
  IF Len(technologies) > 0 THEN Join(technologies) ELSE <<"Not specified">>

\* getFallbackQuestions, lines 131-149: each of the ten by its first two
\* letters and its last character, the second with the technologies text
\* it interpolates (academicLevel and projectTitle, interpolated into the
\* first and the last, are the same in every call explored)
getFallbackQuestions(technologies) ==
  << <<"E", "x", ".">>, <<"W", "h">> \o technologies \o <<"?">>,
     <<"H", "o", "?">>,
     <<"D", "e", ".">>, <<"H", "o", "?">>, <<"W", "h", "?">>,
     <<"H", "o", "?">>, <<"W", "h", "?">>, <<"I", "f", "?">>,
     <<"H", "o", "?">> >>

\* String(result), line 86: the lines of the text generated when the result
\* object renders as its text, the one line "[object Object]" otherwise
StringOf(response, rendersText) ==
  IF rendersText THEN response ELSE << <<"[", "o", "]">> >>

\* q.trim(), line 91
Trim(q) ==
  LET kept == { i \in 1..Len(q) : q[i] # " " }
  IN IF kept = {} THEN <<>>
     ELSE SubSeq(q, CHOOSE i \in kept : \A j \in kept : i <= j,
                    CHOOSE i \in kept : \A j \in kept : i >= j)

\* q.length > 0 && q.endsWith("?"), line 92
IsQuestion(q) == Len(q) > 0 /\ q[Len(q)] = "?"

\* lines 89-92
QuestionsList(questionsText) ==
  SelectSeq([i \in 1..Len(questionsText) |-> Trim(questionsText[i])],
            IsQuestion)

\* questionsList.length < 5, line 96
TooFew_UnderFour(questionsList) == Len(questionsList) < MinQuestions - 1
TooFew(questionsList) == Len(questionsList) < MinQuestions

\* generateQuestionsFromDocument, lines 17-126
generateQuestionsFromDocument(questionCount, technologies, apiKey, evaluator, response, rendersText) ==
  IF ~apiKey THEN getFallbackQuestions(Join(technologies))
  ELSE IF evaluator = "throws"
    THEN getFallbackQuestions(techString(technologies))
  ELSE LET questionsList == QuestionsList(StringOf(response, rendersText))
       IN IF TooFew(questionsList)
            THEN getFallbackQuestions(techString(technologies))
            ELSE questionsList

\* generateText is called unless the key check of lines 31-40 returns first
CallsEvaluator(apiKey) == apiKey

\* what leaves the function as an exception: the inner catch of line 104
\* takes what generateText throws, the outer catch of line 118 the rest,
\* and both return the fallback list
Raises(apiKey, evaluator) ==
  LET inner == IF apiKey /\ evaluator = "throws" THEN "caught" ELSE "none"
  IN inner \notin {"none", "caught"}

\* no call made
NoGeneration ==
  [done |-> FALSE, questionCount |-> 10, technologies |-> <<>>,
   apiKey |-> FALSE,
   evaluator |-> "throws", response |-> << <<" ">> >>,
   rendersText |-> FALSE, returned |-> <<>>, called |-> FALSE,
   raised |-> FALSE]

(* ------------- the interviews and feedback collections ---------------- *)
\* defenseSchema.categoryScores, constants/index.ts lines 199-225
defenseSchema_FourNames ==
  <<"Technical Accuracy", "Documentation Alignment", "Response Structure",
    "Critical Thinking">>
defenseSchema ==
  <<"Technical Accuracy", "Documentation Alignment", "Response Structure",
    "Critical Thinking", "Time Management">>

\* simpleFeedback.categoryScores, general.action.ts lines 89-107
simpleFeedback ==
  <<"Technical Understanding", "Project Implementation", "Response Quality">>

\* the one session followed and the ids of feedback documents; NoId stands
\* for an id that is undefined
SessionId == "s1"
FeedbackIds == 1..MaxFeedbackRecords
NoId == 0

\* lists of questions are named by their origin: "none", "synthesized"
\* (made from the document by generateQuestionsFromDocument), "created"
\* (written by createDefenseSession, lines 21-36), "updated" (written by
\* updateDefenseSession, lines 357-368), "props" (the questions prop),
\* "fallback" (of handleCall, Agent.tsx lines 908-914)

NoSession ==
  [exists |-> FALSE, finalized |-> FALSE, merged |-> FALSE,
   hasFeedback |-> FALSE, feedbackId |-> NoId, questions |-> "none"]
NoFeedback == [exists |-> FALSE, interviewId |-> "", categoryScores |-> <<>>]

\* createDefenseSession, lines 9-60: sessionData; the questions handed in
\* are not among the parameters read (line 11)
createDefenseSession_NotFinalized(questions) ==
  [NoSession EXCEPT !.exists = TRUE, !.finalized = FALSE,
                    !.questions = "created"]
createDefenseSession(questions) ==
  [NoSession EXCEPT !.exists = TRUE, !.finalized = TRUE,
                    !.questions = "created"]

\* db.collection("feedback").doc(feedbackId) or .doc(), lines 125-130 and
\* 209-214: the id given, else one no document has
HasFeedbackRef(feedback, feedbackId) ==
  feedbackId # NoId \/ \E id \in FeedbackIds : ~feedback[id].exists
FeedbackRef(feedback, feedbackId) ==
  IF feedbackId # NoId THEN feedbackId
  ELSE CHOOSE id \in FeedbackIds :
         /\ ~feedback[id].exists
         /\ \A other \in FeedbackIds : ~feedback[other].exists => id <= other

\* createFeedback, lines 62-228, on the two collections: apiKey says
\* whether GOOGLE_GENERATIVE_AI_API_KEY is set, evaluator how generateObject
\* ends, throws which Firestore call throws
createFeedback_WritesOnFailure(session, feedback, interviewId, feedbackId, apiKey, evaluator, throws) ==
  [session |-> session,
   feedback |-> [feedback EXCEPT ![FeedbackRef(feedback, feedbackId)] =
                   [exists |-> TRUE, interviewId |-> interviewId,
                    categoryScores |-> defenseSchema]],
   success |-> FALSE, feedbackId |-> NoId]
createFeedback(session, feedback, interviewId, feedbackId, apiKey, evaluator, throws) ==
  LET ref == FeedbackRef(feedback, feedbackId)
      failure == [session |-> session, feedback |-> feedback,
                  success |-> FALSE, feedbackId |-> NoId]
      written(scores) ==
        [feedback EXCEPT ![ref] = [exists |-> TRUE, interviewId |-> interviewId,
                                   categoryScores |-> scores]]
  IN IF throws = "get" THEN failure
     ELSE IF ~apiKey
       THEN IF throws = "set" THEN failure
            ELSE [session |-> session, feedback |-> written(simpleFeedback),
                  success |-> TRUE, feedbackId |-> ref]
     ELSE IF evaluator = "throws" THEN failure
     ELSE IF throws = "set" THEN failure
     ELSE IF throws = "update" \/ ~session.exists
       THEN [session |-> session, feedback |-> written(defenseSchema),
             success |-> FALSE, feedbackId |-> NoId]
     ELSE [session |-> [session EXCEPT !.hasFeedback = TRUE],
           feedback |-> written(defenseSchema),
           success |-> TRUE, feedbackId |-> ref]

\* getFeedbackByInterviewId, lines 236-252: the ids the query limited to
\* one may answer with
getFeedbackByInterviewId(feedback, interviewId) ==
  LET found == { id \in FeedbackIds :
                   feedback[id].exists /\ feedback[id].interviewId = interviewId }
  IN IF found = {} THEN {NoId} ELSE found

\* deleteFeedback, lines 298-306, and deleteDefenseSession, lines 288-296
deleteFeedback(feedback, feedbackId, throws) ==
  IF throws THEN [feedback |-> feedback, success |-> FALSE]
  ELSE [feedback |-> [feedback EXCEPT ![feedbackId] = NoFeedback],
        success |-> TRUE]
deleteDefenseSession(session, throws) ==
  IF throws THEN [session |-> session, success |-> FALSE]
  ELSE [session |-> NoSession, success |-> TRUE]

\* handleDelete of InterviewCard (lines 93-129) and handleDeleteSession of
\* DefenseSessions (lines 36-66): the feedback is deleted first when its id
\* is known, and a failure there is thrown past the session deletion
handleDelete_SessionAnyway(session, feedback, feedbackId, feedbackThrows, sessionThrows) ==
  LET f == IF feedbackId # NoId
             THEN deleteFeedback(feedback, feedbackId, feedbackThrows)
             ELSE [feedback |-> feedback, success |-> TRUE]
      d == deleteDefenseSession(session, sessionThrows)
  IN [session |-> d.session, feedback |-> f.feedback,
      success |-> f.success /\ d.success]
handleDelete(session, feedback, feedbackId, feedbackThrows, sessionThrows) ==
  LET f == IF feedbackId # NoId
             THEN deleteFeedback(feedback, feedbackId, feedbackThrows)
             ELSE [feedback |-> feedback, success |-> TRUE]
  IN IF ~f.success
       THEN [session |-> session, feedback |-> f.feedback, success |-> FALSE]
       ELSE LET d == deleteDefenseSession(session, sessionThrows)
            IN [session |-> d.session, feedback |-> f.feedback,
                success |-> d.success]

\* the last server action or handler run
NoRun ==
  [op |-> "none", success |-> FALSE, feedbackId |-> NoId, apiKey |-> FALSE,
   evaluator |-> "none", throws |-> "none", shown |-> "none"]

\* nothing stored, no card mounted, no session submitted
InitialRecords ==
  [session |-> NoSession,
   feedback |-> [id \in FeedbackIds |-> NoFeedback],
   card |-> NoId,
   synthesized |-> FALSE,
   extractedQuestions |-> "none",
   supplied |-> "none",
   last |-> NoRun]

(* ------------------ document-processor: processDocument --------------- *)
\* part_005 lines 309-315
MAX_FILE_SIZE == 5 * 1024 * 1024
ALLOWED_FILE_TYPES ==
  {"application/pdf",
   "application/vnd.openxmlformats-officedocument.wordprocessingml.document",
   "application/vnd.openxmlformats-officedocument.presentationml.presentation"}

\* the files handed in: sizes about the limit, the allowed types and two
\* others, a name that may be empty
\* what an extractor yields: text of blanks, line breaks and letters, or an
\* exception
Extractions ==
  { [threw |-> FALSE, text |-> t] :
      t \in UNION { [1..n -> {" ", "\n", "a"}] : n \in 0..MaxTextLen } }
  \cup { [threw |-> TRUE, text |-> <<>>] }

\* a character \s matches
Whitespace(c) == c \in {" ", "\n"}

\* !extractedText || extractedText.trim().length === 0, line 384
IsBlank_EmptyOnly(text) == text = <<>>
IsBlank(text) == \A i \in 1..Len(text) : Whitespace(text[i])

\* the placeholders of lines 386 and 391-395, by their brackets, a letter of
\* their wording and the file name
NoTextPlaceholder(name) == <<"[", "N">> \o name \o <<"]">>
ErrorPlaceholder(name) == <<"[", "E">> \o name \o <<"]">>

\* optimizeText, lines 570-572: each run of whitespace becomes one blank
\* (after which no line break is left for the second replace), then trim
optimizeText(text) ==
  LET first == SelectSeq([i \in 1..Len(text) |-> i],
                         LAMBDA i : \/ ~Whitespace(text[i])
                                    \/ i = 1
                                    \/ ~Whitespace(text[i - 1]))
      collapsed == [k \in 1..Len(first) |->
                      IF Whitespace(text[first[k]]) THEN " "
                      ELSE text[first[k]]]
  IN Trim(collapsed)

\* processDocument, lines 335-439: text and success returned, and whether
\* an extractor was called; later says whether hashing, compressing or
\* chunking throws into the catch of line 422
processDocument(size, fileType, name, extracted, later) ==
  IF size > MAX_FILE_SIZE
    THEN [text |-> <<>>, success |-> FALSE, attempted |-> FALSE]
  ELSE IF fileType \notin ALLOWED_FILE_TYPES
    THEN [text |-> <<>>, success |-> FALSE, attempted |-> FALSE]
  ELSE LET extractedText ==
             IF extracted.threw THEN ErrorPlaceholder(name)
             ELSE IF IsBlank(extracted.text) THEN NoTextPlaceholder(name)
             ELSE extracted.text
       IN IF later
            THEN [text |-> <<>>, success |-> FALSE, attempted |-> TRUE]
            ELSE [text |-> optimizeText(extractedText), success |-> TRUE,
                  attempted |-> TRUE]

\* no call made
NoExtraction ==
  [done |-> FALSE, size |-> 0, fileType |-> "", name |-> <<>>,
   extracted |-> [threw |-> TRUE, text |-> <<>>], later |-> FALSE,
   text |-> <<>>, success |-> FALSE, attempted |-> FALSE]

(* ------------- concurrent calls of updateDefenseSession --------------- *)
\* the data of the calls that run concurrently: the title and the
\* technologies collected in one conversation
ConcurrentData ==
  { [NoData EXCEPT !.role = Given("Thesis")],
    [NoData EXCEPT !.role = Given("Compiler")],
    [NoData EXCEPT !.techstack = Given(<<"react">>)] }

\* a call of updateDefenseSession stands between two of its awaits: at
\* "get" before sessionRef.get() (line 327), at "update" before the first
\* sessionRef.update (line 336), at "questions" before the update of the
\* questions (line 370), at "done" when it has returned; existing is the
\* snapshot sessionDoc it took

\* no call has been made
NoUpdates ==
  [initial |-> CHOOSE doc \in Docs : doc.exists /\ doc.techstack = <<>>,
   doc |-> CHOOSE doc \in Docs : doc.exists /\ doc.techstack = <<>>,
   now |-> 0, calls |-> <<>>]

(* ------------- question-generator.ts: EnhancedVapi.start --------------- *)
\* private maxReconnectAttempts = 3, line 156
EnhancedVapi_maxReconnectAttempts == 3

\* what super.start() rejects with, as shouldAttemptReconnect looks at it:
\* whether it is falsy, the number of its own enumerable keys, and the text
\* of `error instanceof Error ? error.message : String(error)`.  In turn:
\* undefined; an Error (message is not an enumerable key); a plain object
\* with a key; the strings "network" and "API key network"
NoStartError == [falsy |-> TRUE, ownKeys |-> 0, text |-> <<>>]
StartErrors ==
  { NoStartError,
    [falsy |-> FALSE, ownKeys |-> 0, text |-> MsgAPIKeyNetwork],
    [falsy |-> FALSE, ownKeys |-> 1,
     text |-> <<"[","o","b","j","e","c","t"," ","O","b","j","e","c","t","]">>],
    [falsy |-> FALSE, ownKeys |-> Len(PatNetwork), text |-> PatNetwork],
    [falsy |-> FALSE, ownKeys |-> Len(MsgAPIKeyNetwork), text |-> MsgAPIKeyNetwork] }

\* shouldAttemptReconnect, lines 279-305
shouldAttemptReconnect(error) ==
  IF error.falsy \/ error.ownKeys = 0 THEN TRUE
  ELSE IF \/ Includes(error.text, PatAPIKey)
          \/ Includes(error.text, PatAuthentication)
          \/ Includes(error.text,
                      <<"u","n","a","u","t","h","o","r","i","z","e","d">>)
    THEN FALSE
  ELSE \/ Includes(error.text, PatConnection)
       \/ Includes(error.text, PatNetwork)
       \/ Includes(error.text, PatTransport)
       \/ Includes(error.text, PatMeetingHasEnded)
       \/ Includes(error.text, <<"s","o","c","k","e","t">>)
       \/ Includes(error.text, PatTimeout)

\* lines 184-201: start up to its await of super.start(); fresh says that
\* the component called it, not start itself
Entered(t, fresh) ==
  [t EXCEPT
     !.reconnectAttempts = IF ~t.isReconnecting THEN 0 ELSE @,
     !.connectionTimeout = TRUE,
     !.pc = "starting",
     !.attempts = IF fresh THEN 1 ELSE @ + 1,
     !.entered = IF fresh THEN (IF ~t.isReconnecting THEN 0
                                ELSE t.reconnectAttempts)
                 ELSE @,
     !.outcome = "none"]

\* lines 215-248: super.start() has rejected with error
Rejected(t, error) ==
  LET t1 == [t EXCEPT !.connectionTimeout = FALSE, !.error = error]
  IN IF shouldAttemptReconnect(error)
       THEN IF t.reconnectAttempts + 1 <= EnhancedVapi_maxReconnectAttempts
              THEN [t1 EXCEPT !.isReconnecting = TRUE,
                              !.reconnectAttempts = @ + 1,
                              !.pc = "waiting"]
              ELSE [t1 EXCEPT !.isReconnecting = FALSE,
                              !.reconnectAttempts = @ + 1,
                              !.pc = "idle", !.outcome = "gaveUp"]
       ELSE [t1 EXCEPT !.pc = "idle", !.outcome = "rethrown"]

\* the object as constructed, lines 154-157, no call made
NoTransport ==
  [pc |-> "idle", isReconnecting |-> FALSE, reconnectAttempts |-> 0,
   connectionTimeout |-> FALSE, attempts |-> 0, entered |-> 0,
   outcome |-> "none", error |-> NoStartError, timedOut |-> FALSE]

(* ---------------------------- specification --------------------------- *)
Init ==
  /\ InitAgent
  /\ store = InitialStore(CHOOSE doc \in Docs : doc.exists /\ doc.techstack = <<>>)
  /\ generation = NoGeneration
  /\ records = InitialRecords
  /\ extraction = NoExtraction
  /\ updates = NoUpdates
  /\ transport = NoTransport

Next ==
  \/ Unmount
  \/ Remount
  \/ ClickStart
  \/ HandleCallFetched
  \/ FeedbackReturned
  \/ OnCallStart
  \/ OnCallEnd
  \/ OnCallEndUpdated
  \/ OnCallEndFetched
  \/ OnMessage
  \/ ProjectInfoUpdated
  \/ OnError
  \/ ReconnectFire
  \/ AutoStartFire
  \/ FeedbackFire
  \/ HandleDisconnect
  \/ ClickSubmit
  \/ SubmitCreated
  \/ SubmitStartRejected
  \/ CallStartRejected

Spec == Init /\ [][Next]_vars

(* ------------------- the session store on its own ------------------- *)
\* one call of updateDefenseSession at the next reading of the clock
UpdateDefenseSession ==
  /\ store.now < MaxClock
  /\ \E data \in Data, throws \in {"none", "get", "update", "questions"} :
       LET now == store.now + 1
           r == updateDefenseSession(store.doc, data, now, throws)
       IN store' = [doc |-> r.doc, now |-> now,
                    call |-> [made |-> TRUE, data |-> data,
                              success |-> r.success]]
  /\ UNCHANGED <<agentVars, generation, records, extraction,
                 updates, transport>>

InitStore ==
  /\ InitAgent
  /\ type = "interview"
  /\ isVapiAvailable
  /\ \E doc \in Docs : store = InitialStore(doc)
  /\ generation = NoGeneration
  /\ records = InitialRecords
  /\ extraction = NoExtraction
  /\ updates = NoUpdates
  /\ transport = NoTransport

NextStore == UpdateDefenseSession

SpecStore == InitStore /\ [][NextStore]_vars

(* ------------------- the question generator on its own ---------------- *)
\* the call returns
GenerateQuestions ==
  /\ ~generation.done
  /\ generation' =
       [generation EXCEPT
          !.done = TRUE,
          !.returned = generateQuestionsFromDocument(
                         generation.questionCount, generation.technologies,
                         generation.apiKey,
                         generation.evaluator, generation.response,
                         generation.rendersText),
          !.called = CallsEvaluator(generation.apiKey),
          !.raised = Raises(generation.apiKey, generation.evaluator)]
  /\ UNCHANGED <<agentVars, store, records, extraction,
                 updates, transport>>

InitQuestions ==
  /\ InitAgent
  /\ type = "interview"
  /\ isVapiAvailable
  /\ store = InitialStore(CHOOSE doc \in Docs : doc.exists /\ doc.techstack = <<>>)
  /\ generation \in
       [done : {FALSE}, questionCount : {5, 10},
        technologies : Technologies, apiKey : BOOLEAN,
        evaluator : {"ok", "throws"}, response : Responses,
        rendersText : BOOLEAN, returned : {<<>>}, called : {FALSE},
        raised : {FALSE}]
  /\ records = InitialRecords
  /\ extraction = NoExtraction
  /\ updates = NoUpdates
  /\ transport = NoTransport

NextQuestions == GenerateQuestions

SpecQuestions == InitQuestions /\ [][NextQuestions]_vars

(* ------------------- the two collections on their own ----------------- *)
\* handleSubmitDefenseInfo, Agent.tsx lines 601-713: the questions made from
\* the document are kept in extractedQuestions and handed to
\* createDefenseSession
SubmitDefenseInfo ==
  /\ ~records.session.exists
  /\ \E extracted \in BOOLEAN, throws \in BOOLEAN :
       LET customQuestions == IF extracted THEN "synthesized" ELSE "none"
       IN records' =
            [records EXCEPT
               !.synthesized = extracted,
               !.extractedQuestions = customQuestions,
               !.supplied = "none",
               !.card = NoId,
               !.session = IF throws THEN @
                           ELSE createDefenseSession(customQuestions),
               !.last = [NoRun EXCEPT !.op = "createDefenseSession",
                                      !.success = ~throws]]
  /\ UNCHANGED <<agentVars, store, generation, extraction,
                 updates, transport>>

\* a structured-metadata message of the preparation call is merged:
\* onProjectInfoReceived, Agent.tsx lines 189-227, and updateDefenseSession
MergeMetadata ==
  /\ \E json \in Payloads, throws \in BOOLEAN :
       /\ json.kind = "object"
       /\ LET keys == UpdateData(json.fields)
              data == [NoData EXCEPT
                         !.role = IF "role" \in keys THEN Given("Thesis") ELSE @,
                         !.techstack = IF "techstack" \in keys
                                         THEN Given(<<"react">>) ELSE @,
                         !.focusRatio = IF "focusRatio" \in keys
                                          THEN Given("60/40") ELSE @]
              written == records.session.exists /\ ~throws
          IN records' =
               [records EXCEPT
                  !.session =
                    IF ~written THEN @
                    ELSE [@ EXCEPT
                            !.finalized = IF "finalized" \in keys THEN TRUE ELSE @,
                            !.merged = TRUE,
                            !.questions = IF NeedsQuestions(data)
                                            THEN "updated" ELSE @],
                  !.last = [NoRun EXCEPT !.op = "updateDefenseSession",
                                         !.success = written]]
  /\ UNCHANGED <<agentVars, store, generation, extraction,
                 updates, transport>>

\* onCallEnd of the preparation call re-fetches the session, Agent.tsx
\* lines 310-331
RefetchQuestions ==
  /\ records.session.exists
  /\ records.session.questions # "none"
  /\ records' = [records EXCEPT
                   !.extractedQuestions = records.session.questions,
                   !.last = [NoRun EXCEPT !.op = "getInterviewsByUserId",
                                          !.success = TRUE]]
  /\ UNCHANGED <<agentVars, store, generation, extraction,
                 updates, transport>>

\* handleCall formats the questions of the examination call, Agent.tsx
\* lines 884-915 and 945-948; the questions prop is none or the stored list
StartExamination ==
  /\ records.session.exists
  /\ \E questions \in {"none", records.session.questions} :
       records' =
         [records EXCEPT
            !.supplied = IF records.extractedQuestions # "none"
                           THEN records.extractedQuestions
                         ELSE IF questions # "none" THEN questions
                         ELSE "fallback",
            !.last = [NoRun EXCEPT !.op = "handleCall", !.success = TRUE]]
  /\ UNCHANGED <<agentVars, store, generation, extraction,
                 updates, transport>>

\* the ways a createFeedback call can go: the credential set or not, the
\* evaluator (when reached) answering or throwing, the Firestore call that
\* throws (when reached)
FeedbackRuns ==
  { [apiKey |-> TRUE, evaluator |-> "none", throws |-> "get"],
    [apiKey |-> FALSE, evaluator |-> "none", throws |-> "none"],
    [apiKey |-> FALSE, evaluator |-> "none", throws |-> "set"],
    [apiKey |-> TRUE, evaluator |-> "throws", throws |-> "none"],
    [apiKey |-> TRUE, evaluator |-> "ok", throws |-> "none"],
    [apiKey |-> TRUE, evaluator |-> "ok", throws |-> "set"],
    [apiKey |-> TRUE, evaluator |-> "ok", throws |-> "update"] }

\* handleGenerateFeedback awaits createFeedback and navigates, Agent.tsx
\* lines 156-176; the feedbackId prop is undefined or names a feedback of
\* the session
CreateFeedback ==
  /\ \E feedbackId \in getFeedbackByInterviewId(records.feedback, SessionId) \cup {NoId},
        run \in FeedbackRuns :
       /\ HasFeedbackRef(records.feedback, feedbackId)
       /\ LET apiKey == run.apiKey
              evaluator == run.evaluator
              throws == run.throws
              r == createFeedback(records.session, records.feedback, SessionId,
                                  feedbackId, apiKey, evaluator, throws)
          IN records' =
               [records EXCEPT
                  !.session = r.session,
                  !.feedback = r.feedback,
                  !.last = [op |-> "createFeedback", success |-> r.success,
                            feedbackId |-> r.feedbackId, apiKey |-> apiKey,
                            evaluator |-> evaluator, throws |-> throws,
                            shown |-> IF r.success /\ r.feedbackId # NoId
                                        THEN "feedback" ELSE "dashboard"]]
  /\ UNCHANGED <<agentVars, store, generation, extraction,
                 updates, transport>>

\* the mount effect of InterviewCard, lines 49-69
CardFetchFeedback ==
  /\ records.session.exists
  /\ \E id \in getFeedbackByInterviewId(records.feedback, SessionId) :
       records' = [records EXCEPT
                     !.card = id,
                     !.last = [NoRun EXCEPT !.op = "getFeedbackByInterviewId",
                                            !.success = TRUE]]
  /\ UNCHANGED <<agentVars, store, generation, extraction,
                 updates, transport>>

\* what a deletion handler leaves
Deleted(op, feedbackId, feedbackThrows, sessionThrows) ==
  LET r == handleDelete(records.session, records.feedback, feedbackId,
                        feedbackThrows, sessionThrows)
  IN [records EXCEPT
        !.session = r.session,
        !.feedback = r.feedback,
        !.card = IF r.success THEN NoId ELSE @,
        !.last = [NoRun EXCEPT
                    !.op = op, !.success = r.success,
                    !.feedbackId = feedbackId,
                    !.throws = IF feedbackId # NoId /\ feedbackThrows
                                 THEN "feedback"
                               ELSE IF sessionThrows THEN "session"
                               ELSE "none"]]

\* handleDelete of InterviewCard, lines 93-129, with the feedback it fetched
CardHandleDelete ==
  /\ records.session.exists
  /\ \E feedbackThrows \in BOOLEAN, sessionThrows \in BOOLEAN :
       records' = Deleted("handleDelete", records.card,
                          feedbackThrows, sessionThrows)
  /\ UNCHANGED <<agentVars, store, generation, extraction,
                 updates, transport>>

\* handleDeleteSession(session.id, session.feedbackId) of DefenseSessions,
\* lines 36-66 and 151
HandleDeleteSession ==
  /\ records.session.exists
  /\ \E feedbackThrows \in BOOLEAN, sessionThrows \in BOOLEAN :
       records' = Deleted("handleDeleteSession", records.session.feedbackId,
                          feedbackThrows, sessionThrows)
  /\ UNCHANGED <<agentVars, store, generation, extraction,
                 updates, transport>>

InitRecords ==
  /\ InitAgent
  /\ type = "interview"
  /\ isVapiAvailable
  /\ store = InitialStore(CHOOSE doc \in Docs : doc.exists /\ doc.techstack = <<>>)
  /\ generation = NoGeneration
  /\ records = InitialRecords
  /\ extraction = NoExtraction
  /\ updates = NoUpdates
  /\ transport = NoTransport

NextRecords ==
  \/ SubmitDefenseInfo
  \/ MergeMetadata
  \/ RefetchQuestions
  \/ StartExamination
  \/ CreateFeedback
  \/ CardFetchFeedback
  \/ CardHandleDelete
  \/ HandleDeleteSession

SpecRecords == InitRecords /\ [][NextRecords]_vars

(* ------------------- the document processor on its own ---------------- *)
\* the call returns
ProcessDocument ==
  /\ ~extraction.done
  /\ LET r == processDocument(extraction.size, extraction.fileType,
                              extraction.name, extraction.extracted,
                              extraction.later)
     IN extraction' = [extraction EXCEPT !.done = TRUE, !.text = r.text,
                                         !.success = r.success,
                                         !.attempted = r.attempted]
  /\ UNCHANGED <<agentVars, store, generation, records,
                 updates, transport>>

InitDocument ==
  /\ InitAgent
  /\ type = "interview"
  /\ isVapiAvailable
  /\ store = InitialStore(CHOOSE doc \in Docs : doc.exists /\ doc.techstack = <<>>)
  /\ generation = NoGeneration
  /\ records = InitialRecords
  /\ updates = NoUpdates
  /\ transport = NoTransport
  /\ extraction \in
       [done : {FALSE}, size : {0, MAX_FILE_SIZE, MAX_FILE_SIZE + 1},
        fileType : ALLOWED_FILE_TYPES \cup {"text/plain", ""},
        name : { <<>>, <<"f">> }, extracted : Extractions, later : BOOLEAN,
        text : {<<>>}, success : {FALSE}, attempted : {FALSE}]

NextDocument == ProcessDocument

SpecDocument == InitDocument /\ [][NextDocument]_vars

(* ------------ updateDefenseSession called concurrently -------------- *)
\* onProjectInfoReceived calls updateDefenseSession without waiting for an
\* earlier call to return (Agent.tsx line 222)
BeginUpdate ==
  /\ Len(updates.calls) < MaxConcurrentUpdates
  /\ \E data \in ConcurrentData :
       updates' = [updates EXCEPT !.calls =
                     Append(@, [pc |-> "get", data |-> data,
                                existing |-> updates.initial,
                                success |-> FALSE])]
  /\ UNCHANGED <<agentVars, store, generation, records, extraction, transport>>

\* sessionRef.get() returns or throws, lines 326-331
UpdateGet ==
  /\ \E i \in 1..Len(updates.calls), throws \in BOOLEAN :
       /\ updates.calls[i].pc = "get"
       /\ updates' = [updates EXCEPT
                        !.calls[i] =
                          IF throws \/ ~updates.doc.exists
                            THEN [@ EXCEPT !.pc = "done", !.success = FALSE]
                            ELSE [@ EXCEPT !.pc = "update",
                                           !.existing = updates.doc]]
  /\ UNCHANGED <<agentVars, store, generation, records, extraction, transport>>

\* the first sessionRef.update returns or throws, lines 333-343
UpdateWrite ==
  /\ \E i \in 1..Len(updates.calls), throws \in BOOLEAN :
       LET call == updates.calls[i]
           now == updates.now + 1
       IN /\ call.pc = "update"
          /\ IF throws /\ sanitizedData(call.data) # {}
               THEN updates' = [updates EXCEPT
                                  !.calls[i] = [call EXCEPT !.pc = "done",
                                                            !.success = FALSE]]
               ELSE updates' = [updates EXCEPT
                      !.doc = Updated(@, call.data, now),
                      !.now = now,
                      !.calls[i] = IF NeedsQuestions(call.data)
                                     THEN [call EXCEPT !.pc = "questions"]
                                     ELSE [call EXCEPT !.pc = "done",
                                                       !.success = TRUE]]
  /\ UNCHANGED <<agentVars, store, generation, records, extraction, transport>>

\* sessionRef.update({ questions }) returns or throws, lines 344-373
UpdateQuestions ==
  /\ \E i \in 1..Len(updates.calls), throws \in BOOLEAN :
       LET call == updates.calls[i]
       IN /\ call.pc = "questions"
          /\ IF throws
               THEN updates' = [updates EXCEPT
                                  !.calls[i] = [call EXCEPT !.pc = "done",
                                                            !.success = FALSE]]
               ELSE updates' = [updates EXCEPT
                      !.doc = [@ EXCEPT !.questions =
                                 GeneratedQuestions(
                                   call.data.role.value,
                                   TechstackStr(call.data, call.existing),
                                   FocusStr(call.data, call.existing))],
                      !.calls[i] = [call EXCEPT !.pc = "done",
                                                !.success = TRUE]]
  /\ UNCHANGED <<agentVars, store, generation, records, extraction, transport>>

InitUpdates ==
  /\ InitAgent
  /\ type = "interview"
  /\ isVapiAvailable
  /\ store = InitialStore(CHOOSE doc \in Docs : doc.exists /\ doc.techstack = <<>>)
  /\ generation = NoGeneration
  /\ records = InitialRecords
  /\ extraction = NoExtraction
  /\ \E doc \in Docs :
       updates = [initial |-> doc, doc |-> doc, now |-> 0, calls |-> <<>>]
  /\ transport = NoTransport

NextUpdates ==
  \/ BeginUpdate
  \/ UpdateGet
  \/ UpdateWrite
  \/ UpdateQuestions

SpecUpdates == InitUpdates /\ [][NextUpdates]_vars

(* --------------------- EnhancedVapi.start on its own ------------------ *)
\* the component calls vapi.start (Agent.tsx lines 762 and 945) when no
\* start call is running
TransportStart ==
  /\ transport.pc = "idle"
  /\ transport' = [Entered(transport, TRUE) EXCEPT !.timedOut = FALSE]
  /\ UNCHANGED <<agentVars, store, generation, records, extraction, updates>>

\* super.start() resolves, lines 203-214
TransportResolved ==
  /\ transport.pc = "starting"
  /\ transport' = [transport EXCEPT
                     !.connectionTimeout = FALSE, !.isReconnecting = FALSE,
                     !.reconnectAttempts = 0, !.pc = "idle",
                     !.outcome = "resolved"]
  /\ UNCHANGED <<agentVars, store, generation, records, extraction, updates>>

\* super.start() rejects
TransportRejected ==
  /\ transport.pc = "starting"
  /\ \E error \in StartErrors : transport' = Rejected(transport, error)
  /\ UNCHANGED <<agentVars, store, generation, records, extraction, updates>>

\* the 2 s wait of line 232 is over: start calls itself, line 235
TransportRetry ==
  /\ transport.pc = "waiting"
  /\ transport' = Entered(transport, FALSE)
  /\ UNCHANGED <<agentVars, store, generation, records, extraction, updates>>

\* the 15 s timer of lines 197-200 fires while super.start() is pending and
\* emits the "Connection timeout" error
TransportTimeout ==
  /\ transport.pc = "starting" /\ transport.connectionTimeout
  /\ ~transport.timedOut
  /\ transport' = [transport EXCEPT !.timedOut = TRUE]
  /\ UNCHANGED <<agentVars, store, generation, records, extraction, updates>>

\* the component calls vapi.stop (End button) on the call that was
\* started: stop, lines 254-274
TransportStop ==
  /\ transport.pc = "idle" /\ transport.outcome = "resolved"
  /\ transport' = [transport EXCEPT
                     !.connectionTimeout = FALSE, !.isReconnecting = FALSE,
                     !.reconnectAttempts = 0, !.outcome = "stopped"]
  /\ UNCHANGED <<agentVars, store, generation, records, extraction, updates>>

InitTransport ==
  /\ InitAgent
  /\ type = "interview"
  /\ isVapiAvailable
  /\ store = InitialStore(CHOOSE doc \in Docs : doc.exists /\ doc.techstack = <<>>)
  /\ generation = NoGeneration
  /\ records = InitialRecords
  /\ extraction = NoExtraction
  /\ updates = NoUpdates
  /\ transport = NoTransport

NextTransport ==
  \/ TransportStart
  \/ TransportResolved
  \/ TransportRejected
  \/ TransportRetry
  \/ TransportTimeout
  \/ TransportStop

SpecTransport == InitTransport /\ [][NextTransport]_vars

(* ------------------------------ properties --------------------------- *)
\* C1 (as the specification states it): between two call-starts the error
\* handler schedules at most maxReconnectAttempts reconnect timers; a
\* further consecutive connectivity error navigates away instead.
C1_ReconnectsBoundedPerEpisode == hist.reconnects <= maxReconnectAttempts

\* C2 (as the specification states it): a call-end handled in the
\* preparation phase leaves the phase at examination, and when the 2 s timer
\* it sets fires without an error in between, that step invokes vapi.start
\* for the examination phase.
C2_PreparationEndStartsExamination ==
  [][ /\ (mounted /\ st.sessionPhase = "preparation"
            /\ vapiCall \in {"live", "stopping"} /\ vapiCall' = "idle")
          => st'.sessionPhase = "examination"
      /\ (Len(autoStartTimers') < Len(autoStartTimers) /\ ~hist.prepError)
          => (hist'.started = "auto" /\ hist'.startPhase = "examination") ]_vars

\* C3: every transcript handed to createFeedback, by the call-end timer or
\* by the error handler, has at least 3 turns.
C3_FeedbackNeedsThreeTurns ==
  \A i \in 1..Len(feedbackInFlight) : Len(feedbackInFlight[i].transcript) >= 3

\* C3 witness: createFeedback is awaited for a transcript
C3_FeedbackRequested == feedbackInFlight # <<>>

\* C4: whenever handleCall goes on to invoke vapi.start, whether called by
\* the start button, the 2 s automatic start or the 5 s reconnect timer, the
\* callStatus it was entered with is INACTIVE, FINISHED or ERROR, never
\* CONNECTING or ACTIVE.
C4_StartOnlyWhenNotInCall ==
  hist.started \in {"button", "auto", "reconnect"}
    => hist.startStatus \in {"INACTIVE", "FINISHED", "ERROR"}

\* C4 witness: the reconnect timer has just invoked vapi.start
C4_ReconnectStarted == hist.started = "reconnect" /\ vapiCall = "starting"

\* a call-end event is being handled in the examination phase
ExaminationCallEnd ==
  /\ mounted /\ st.sessionPhase = "examination"
  /\ vapiCall \in {"live", "stopping"} /\ vapiCall' = "idle"

\* C5: a call-end in the examination phase schedules feedback generation
\* only if the readyForFeedback marker is already set and the transcript has
\* at least 3 turns; an unmarked one sets the marker and navigates away, a
\* marked one with fewer than 3 turns navigates away, both without feedback;
\* and nothing but an examination call-end sets the marker.
C5_FeedbackOnlyOnMarkedCallEnd ==
  [][ /\ (ExaminationCallEnd /\ feedbackTimers' # feedbackTimers)
          => (st.readyForFeedback /\ Len(st.messages) >= 3)
      /\ (ExaminationCallEnd /\ ~st.readyForFeedback)
          => /\ st'.readyForFeedback /\ navigated'
             /\ feedbackTimers' = feedbackTimers
             /\ feedbackInFlight' = feedbackInFlight
      /\ (ExaminationCallEnd /\ st.readyForFeedback /\ Len(st.messages) < 3)
          => /\ navigated'
             /\ feedbackTimers' = feedbackTimers
             /\ feedbackInFlight' = feedbackInFlight
      /\ (mounted' /\ st'.readyForFeedback /\ ~st.readyForFeedback)
          => ExaminationCallEnd ]_vars

\* C5 witness: a marked call-end has scheduled feedback for its transcript
C5_FeedbackScheduled ==
  /\ feedbackTimers # <<>> /\ st.readyForFeedback
  /\ st.callStatus = "FINISHED" /\ vapiCall = "idle"

\* handleDisconnect has run in this step
Stopped == vapiCall # "stopping" /\ vapiCall' = "stopping"

\* C6: handleDisconnect leaves callStatus FINISHED and no reconnect timer
\* pending, no exception leaves it, and no reconnect timer that was pending
\* when it ran fires afterwards.
C6_StopFinishesAndCancels ==
  /\ [](~hist.stopThrew /\ ~hist.staleFire)
  /\ [][Stopped => (st'.callStatus = "FINISHED" /\ reconnectTimers' = {})]_vars

\* C6 witness: the call is being stopped
C6_StopRequested ==
  vapiCall = "stopping" /\ st.callStatus = "FINISHED" /\ reconnectTimers = {}

\* C7: never more than one reconnect timer is pending, and right after
\* onError has scheduled one no other is.
C7_OneReconnectTimer ==
  /\ Cardinality(reconnectTimers) <= 1
  /\ hist.scheduled => \A t \in reconnectTimers : t.id = reconnectTimeoutRef

\* C7 witness: onError cleared a pending timer and scheduled the next one
C7_TimerReplaced == hist.replaced /\ Cardinality(reconnectTimers) = 1

\* C8 (as the specification states it): a reconnect timer that the error
\* handler has scheduled is cleared before it fires only by a stop or after
\* a navigation away; otherwise it stays pending until it re-invokes start.
C8_ReconnectNotSilentlyCancelled ==
  hist.cancelled => (navigated \/ vapiCall = "stopping")

\* C9: while the component is mounted the session phase changes only from
\* preparation to examination and only in the step that handles a call-end
\* in the preparation phase; no error event and no other step changes it.
C9_PhaseChangesOnlyOnPreparationEnd ==
  [][ (mounted' /\ st'.sessionPhase # st.sessionPhase)
        => /\ st.sessionPhase = "preparation"
           /\ st'.sessionPhase = "examination"
           /\ vapiCall \in {"live", "stopping"} /\ vapiCall' = "idle" ]_vars

\* C9 witness: the preparation call has ended and the phase is examination
C9_PreparationEnded ==
  type = "generate" /\ mounted /\ st.sessionPhase = "examination"

\* the changes of callStatus the specification's order allows, a start from
\* FINISHED or ERROR counted as the beginning of the next round
OrderedChanges ==
  { <<"INACTIVE", "CONNECTING">>, <<"FINISHED", "CONNECTING">>,
    <<"ERROR", "CONNECTING">>, <<"CONNECTING", "ACTIVE">>,
    <<"ACTIVE", "FINISHED">>, <<"CONNECTING", "ERROR">>, <<"ACTIVE", "ERROR">> }

\* C10 (as the specification states it): callStatus moves along INACTIVE,
\* CONNECTING, ACTIVE, FINISHED and enters ERROR only from CONNECTING or
\* ACTIVE.
C10_StatusFollowsOrder ==
  [][ (mounted' /\ st'.callStatus # st.callStatus)
        => <<st.callStatus, st'.callStatus>> \in OrderedChanges ]_vars

\* the changes of callStatus the code makes
StatusChanges ==
  OrderedChanges \cup
  { <<"INACTIVE", "ERROR">>, <<"FINISHED", "ERROR">>,
    <<"ERROR", "ACTIVE">>, <<"ERROR", "FINISHED">> }

\* C10 (amended): callStatus moves along INACTIVE, CONNECTING, ACTIVE,
\* FINISHED, a start from FINISHED or ERROR re-entering CONNECTING; ERROR is
\* entered from CONNECTING or ACTIVE and also directly from INACTIVE or
\* FINISHED, and is left again by a start, a call-start or a call-end;
\* INACTIVE is never re-entered.
C10_StatusChangesAsCoded ==
  [][ (mounted' /\ st'.callStatus # st.callStatus)
        => <<st.callStatus, st'.callStatus>> \in StatusChanges ]_vars

\* C10 witness: handleCall without the voice service has set ERROR, which
\* no connection attempt preceded
C10_ErrorWithoutConnecting ==
  /\ mounted /\ ~isVapiAvailable
  /\ st.callStatus = "ERROR" /\ st.errorMessage = VapiUnavailable

\* the error onError has just handled names an API key or the
\* authentication, or is a connectivity error, as the specification sorts them
AuthError(errorMsg) ==
  \/ Includes(errorMsg, PatAPIKey)
  \/ Includes(errorMsg, PatAuthentication)
  \/ Includes(errorMsg, PatGoogleKey)

ConnectivityError(errorMsg) ==
  \/ \E p \in {PatConnection, PatEnded, PatTransport, PatNetwork} : Includes(errorMsg, p)
  \/ errorMsg = UnknownConnectionError

\* C11: the step that handles an authentication/configuration error
\* schedules no reconnect timer, invokes neither vapi.start nor feedback
\* generation, leaves the attempt counter alone and has navigated away,
\* also when the message matches a connectivity pattern as well.
C11_AuthErrorIsTerminal ==
  [][ AuthError(hist'.errorMsg)
        => /\ ~hist'.scheduled
           /\ reconnectTimers' \subseteq reconnectTimers
           /\ reconnectAttemptsRef' = reconnectAttemptsRef
           /\ hist'.started = "none" /\ vapiCall' = vapiCall
           /\ feedbackInFlight' = feedbackInFlight
           /\ feedbackTimers' = feedbackTimers
           /\ navigated' ]_vars

\* C11 witness: an authentication error whose message also matches a
\* connectivity pattern has been handled with reconnect attempts left
C11_AuthAndConnectivityHandled ==
  /\ AuthError(hist.errorMsg) /\ ConnectivityError(hist.errorMsg)
  /\ reconnectAttemptsRef < maxReconnectAttempts
  /\ navigated /\ st.callStatus = "ERROR"

MetadataKeys == {"role", "level", "type", "techstack", "focusRatio"}

\* C14 (as the specification states it): the data of every
\* updateDefenseSession call made for a structured-metadata message carries
\* at least one project field; a payload with none is not written (and so
\* gets no summary entry, which only a successful write appends).
C14_WritesCarryMetadata ==
  hist.written # {} => hist.written \cap MetadataKeys # {}

\* C15: the step that handles a json message whose text does not parse
\* leaves the component state (callStatus, sessionPhase, transcript) and the
\* updates in flight as they are, and no exception leaves onMessage.
C15_MalformedPayloadIgnored ==
  /\ []~hist.messageThrew
  /\ [][ hist'.message.json.kind = "malformed"
            => (st' = st /\ updatesInFlight' = updatesInFlight) ]_vars

\* C15 witness: such a message has been handled during a call for a
\* session that exists
C15_MalformedHandled ==
  /\ hist.message.json.kind = "malformed"
  /\ mounted /\ st.currentSessionId # "" /\ st.callStatus = "ACTIVE"

\* C16 (as the specification states it): at most one updateDefenseSession
\* call of onProjectInfoReceived is in flight for a session.
C16_MetadataWritesSerialized ==
  \A i, j \in 1..Len(updatesInFlight) :
    updatesInFlight[i] = updatesInFlight[j] => i = j


\* the role a transcript turn is stored under
KeptRole(role) == IF role \in {"user", "assistant"} THEN role ELSE "system"

\* seq is an initial part of longer
IsPrefix(seq, longer) ==
  Len(seq) <= Len(longer) /\ SubSeq(longer, 1, Len(seq)) = seq

\* C19: a finalized transcript message appends exactly one turn at the end
\* of the transcript, under role user or assistant as delivered and system
\* for any other role; a non-final transcript message leaves the transcript
\* as it is; while a call stays live every step keeps the earlier turns in
\* place and at most appends.
C19_TranscriptOnlyAppended ==
  [][mounted' =>
       LET message == hist'.message
       IN /\ (message.type = "transcript" /\ message.transcriptType = "final"
                => st'.messages = Append(st.messages, KeptRole(message.role)))
          /\ (message.type = "transcript" /\ message.transcriptType # "final"
                => st'.messages = st.messages)
          /\ (vapiCall = "live" /\ vapiCall' = "live"
                => IsPrefix(st.messages, st'.messages))]_vars

\* C19 witness: a finalized turn of another role arrived after an assistant
\* turn and the transcript of three entries ends assistant, system
C19_OtherRoleAppendedLast ==
  /\ mounted /\ vapiCall = "live"
  /\ hist.message.type = "transcript" /\ hist.message.transcriptType = "final"
  /\ hist.message.role = "tool"
  /\ Len(st.messages) = 3
  /\ SubSeq(st.messages, 2, 3) = <<"assistant", "system">>

\* the keys an update names with a defined value
DefinedKeys(data) == { k \in DataKeys : data[k].named /\ data[k].defined }

\* the fields of the stored session, updatedAt aside, a step changes
ChangedFields ==
  { k \in DataKeys \cup {"exists"} : store'.doc[k] # store.doc[k] }

TitleWithoutQuestions(data) ==
  /\ "role" \in DefinedKeys(data) /\ data.role.value # ""
  /\ "questions" \notin DefinedKeys(data)

C18_SuccessStampsUpdatedAt ==
  store.call.made /\ store.call.success => store.doc.updatedAt = store.now

\* C18 (as the code has it): a successful call whose data names a defined
\* value stamps updatedAt with the time of the call; a successful call
\* whose data is empty or all undefined leaves the stored session, its
\* updatedAt included, as it was.
C18_StampedWhenSomethingDefined ==
  [][store'.call.made /\ store'.call.success =>
       IF DefinedKeys(store'.call.data) # {}
         THEN store'.doc.updatedAt = store'.now
         ELSE store'.doc = store.doc]_vars

\* C18 witness: a call whose named fields are all undefined succeeded after
\* an earlier call had stamped the session
C18_AllUndefinedSucceeded ==
  /\ store.call.made /\ store.call.success
  /\ DefinedKeys(store.call.data) = {}
  /\ \A k \in DataKeys : store.call.data[k].named
  /\ store.doc.updatedAt > 0
  /\ store.doc.updatedAt < store.now


\* the lines of a response that are questions: something other than spaces,
\* the last of it a question mark
ValidLines(response) ==
  { i \in 1..Len(response) :
      \E j \in 1..Len(response[i]) :
        /\ response[i][j] = "?"
        /\ \A k \in (j + 1)..Len(response[i]) : response[i][k] = " " }

\* C20 (as the specification states it): when the evaluator call succeeds
\* and its response holds at least five valid lines,
\* generateQuestionsFromDocument returns exactly questionCount strings,
\* each ending in a question mark.
C20_ReturnsQuestionCountQuestions ==
  ( /\ generation.done
    /\ generation.apiKey
    /\ generation.evaluator = "ok"
    /\ Cardinality(ValidLines(generation.response)) >= 5 )
  => /\ Len(generation.returned) = generation.questionCount
     /\ \A i \in 1..Len(generation.returned) :
          generation.returned[i][Len(generation.returned[i])] = "?"


\* the valid lines the call recovers from the evaluator's result
Recovered ==
  IF generation.rendersText
    THEN Cardinality(ValidLines(generation.response)) ELSE 0

\* the call returned a list getFallbackQuestions makes
ReturnedFallback ==
  \E technologies \in Technologies :
    \/ generation.returned = getFallbackQuestions(Join(technologies))
    \/ generation.returned = getFallbackQuestions(techString(technologies))

\* C21: generateQuestionsFromDocument returns the fallback list of ten
\* exactly when the credential is missing, the evaluator call fails or
\* fewer than five valid lines are recovered; it raises nothing, and it
\* does not call the evaluator when the credential is missing.
C21_FallbackExactlyOnFailure ==
  generation.done =>
    /\ (ReturnedFallback
          <=> \/ ~generation.apiKey
              \/ generation.evaluator = "throws"
              \/ Recovered < 5)
    /\ (ReturnedFallback => Len(generation.returned) = 10)
    /\ ~generation.raised
    /\ (~generation.apiKey => ~generation.called)

\* C21 witness: the evaluator answered with four valid lines among six and
\* the fallback list was returned
C21_FourValidLinesFellBack ==
  /\ generation.done /\ generation.apiKey /\ generation.called
  /\ generation.evaluator = "ok" /\ generation.rendersText
  /\ Len(generation.response) = 6
  /\ Cardinality(ValidLines(generation.response)) = 4
  /\ ReturnedFallback


\* the category names the specification fixes, and those of the simplified
\* feedback
FixedCategories ==
  <<"Technical Accuracy", "Documentation Alignment", "Response Structure",
    "Critical Thinking", "Time Management">>
SimplifiedCategories ==
  <<"Technical Understanding", "Project Implementation", "Response Quality">>

\* the feedback documents of the session
FeedbackOfSession ==
  { id \in FeedbackIds : /\ records.feedback[id].exists
                         /\ records.feedback[id].interviewId = SessionId }

C23_EvaluatorFailureWritesNothing ==
  [][( /\ records'.last.op = "createFeedback"
       /\ records'.last.apiKey
       /\ records'.last.throws # "get"
       /\ records'.last.evaluator = "throws" )
      => /\ ~records'.last.success
         /\ records'.feedback = records.feedback
         /\ records'.session = records.session
         /\ records'.last.shown = "dashboard"]_vars

\* C23 witness: the evaluator failed on a regeneration for a session that
\* has a feedback document and no mark
C23_EvaluatorFailedOnRegeneration ==
  /\ records.last.op = "createFeedback"
  /\ records.last.apiKey /\ records.last.evaluator = "throws"
  /\ records.last.throws = "none"
  /\ ~records.last.success
  /\ records.session.exists /\ ~records.session.hasFeedback
  /\ FeedbackOfSession # {}

\* C24 (as the specification states it): a createFeedback call that reports
\* success leaves the session marked as having feedback.
C24_SuccessMarksSession ==
  records.last.op = "createFeedback" /\ records.last.success
    => records.session.hasFeedback

\* C25 (as the specification states it): the session has at most one
\* feedback document, whatever feedback generations ran.
C25_AtMostOneFeedback == Cardinality(FeedbackOfSession) <= 1

\* a deletion handler ran in this step
Deleting == records'.last.op \in {"handleDelete", "handleDeleteSession"}

C27_DeletionCascades ==
  ( /\ records.last.op \in {"handleDelete", "handleDeleteSession"}
    /\ records.last.success )
  => FeedbackOfSession = {}

\* C28 (as the specification states it): a stored session is finalized only
\* once a metadata merge has been persisted for it.
C28_FinalizedOnlyAfterMerge ==
  records.session.exists /\ records.session.finalized
    => records.session.merged

\* C28 (as the code has it): a session is created with finalized = true and
\* stays so; a metadata merge sets the flag again.
C28_FinalizedFromCreation ==
  records.session.exists => records.session.finalized

\* C28 witness: a session just created, no metadata merged, is finalized
C28_CreatedFinalized ==
  /\ records.last.op = "createDefenseSession" /\ records.last.success
  /\ records.session.exists
  /\ ~records.session.merged
  /\ records.session.finalized

\* C29 (as the specification states it): once questions were made from the
\* document at submission, the stored session holds them and the
\* examination call is started with them.
C29_SynthesizedQuestionsKept ==
  records.synthesized /\ records.session.exists
    => /\ records.session.questions = "synthesized"
       /\ records.supplied \in {"none", "synthesized"}


\* the file of the call is within the limits of size and type
Accepted ==
  /\ extraction.size <= 5 * 1024 * 1024
  /\ extraction.fileType \in
       {"application/pdf",
        "application/vnd.openxmlformats-officedocument.wordprocessingml.document",
        "application/vnd.openxmlformats-officedocument.presentationml.presentation"}

\* C30: processDocument answers a file over 5MB or of an unsupported type
\* with success = false without calling an extractor, and never answers an
\* accepted file with success = true and an empty text.
C30_RejectsEarlyNeverEmptySuccess ==
  extraction.done =>
    /\ (~Accepted => ~extraction.success /\ ~extraction.attempted)
    /\ (Accepted => ~(extraction.success /\ extraction.text = <<>>))

\* C30 witness: an accepted file of exactly 5MB whose extractor yielded
\* only whitespace came back with success and the placeholder text
C30_BlankExtractionGotPlaceholder ==
  /\ extraction.done /\ Accepted
  /\ extraction.size = 5 * 1024 * 1024
  /\ ~extraction.extracted.threw
  /\ extraction.extracted.text = <<" ", "\n">>
  /\ extraction.success
  /\ extraction.text # <<>>
  /\ extraction.text[1] = "["


\* C31: the readyForFeedback marker set by the first call-end of the
\* examination is still set when the next call-end of the same session is
\* handled, so that this call-end can reach feedback generation.
C31_MarkerKeptUntilNextCallEnd ==
  [][ (ExaminationCallEnd /\ hist.ended) => st.readyForFeedback ]_vars


\* vapi.start has just been invoked for the examination phase
ExaminationStart == hist.started # "none" /\ hist.startPhase = "examination"

\* C32: every invocation of start for the examination phase, reconnects and
\* manual retries included, hands over the project metadata read from the
\* session record, never the local placeholder values, when the session
\* record is there to be read.
C32_StartPassesSessionMetadata ==
  ExaminationStart => hist.metadata \in {"session", "missing"}


\* C33: the transcript a call-end or an error of the examination hands to
\* feedback generation is the whole transcript of the turns handled before
\* that event, and the check for 3 turns is made on that whole transcript:
\* no turn appended just before the event is missing.
C33_SnapshotHasEveryTurn ==
  [][ /\ (ExaminationCallEnd /\ feedbackTimers' # feedbackTimers)
          => feedbackTimers' = Append(feedbackTimers, st.messages)
      /\ (ExaminationCallEnd /\ st.readyForFeedback /\ Len(st.messages) >= 3)
          => feedbackTimers' # feedbackTimers
      /\ (hist'.errorMsg # <<>> /\ Len(feedbackInFlight') > Len(feedbackInFlight))
          => feedbackInFlight'[Len(feedbackInFlight')].transcript = st.messages
    ]_vars


\* every call of updateDefenseSession made has returned success
UpdatesSucceeded ==
  /\ updates.calls # <<>>
  /\ \A i \in 1..Len(updates.calls) :
       updates.calls[i].pc = "done" /\ updates.calls[i].success

\* the orders in which n calls can be run one after the other
Orders(n) ==
  { order \in [1..n -> 1..n] :
      \A i, j \in 1..n : i # j => order[i] # order[j] }

RECURSIVE Serially(_, _, _, _)
\* the session left by the calls order[k], order[k+1], ... run one after
\* the other on doc, each call as a whole
Serially(doc, calls, order, k) ==
  IF k > Len(calls) THEN doc
  ELSE Serially(updateDefenseSession(doc, calls[order[k]].data, k, "none").doc,
                calls, order, k + 1)

\* the fields of a session other than the time stamp
Content(doc) == [doc EXCEPT !.updatedAt = 0]

\* C34: when concurrent calls of updateDefenseSession on one session have
\* all returned success, the stored session is what running those calls one
\* after the other in some order leaves; in particular generated questions
\* stored were generated from the stored title.
C34_ConcurrentUpdatesSerializable ==
  UpdatesSucceeded =>
    /\ \E order \in Orders(Len(updates.calls)) :
         Content(updates.doc) =
           Content(Serially(updates.initial, updates.calls, order, 1))
    /\ updates.doc.questions.from = "update"
         => updates.doc.questions.role = updates.doc.role


\* C35: while the component is mounted, isReconnecting is true exactly
\* while a reconnect timer is pending: a pending timer implies the flag, and
\* the flag implies a pending timer that will fire and clear it, so that the
\* start button is not left disabled for good.
C35_ReconnectingIffTimerPending ==
  mounted => (st.isReconnecting <=> reconnectTimers # {})


\* C36: the step that handles the "Connection timeout" error the transport
\* emits 15 s after start treats it as a connectivity error: it schedules a
\* reconnect, or the reconnect limit is reached and it navigates away; it
\* never hands a transcript to feedback generation.
C36_TimeoutIsConnectivityError ==
  [][ hist'.errorMsg = MsgConnectionTimeout
        => /\ feedbackInFlight' = feedbackInFlight
           /\ \/ hist'.scheduled
              \/ reconnectAttemptsRef = maxReconnectAttempts /\ navigated' ]_vars


\* C37: a createFeedback call that returns failure has written or replaced
\* no feedback document, whichever of its steps failed, the update of the
\* session that follows the feedback write included.
C37_FailureWritesNoFeedback ==
  [][ (records' # records /\ records'.last.op = "createFeedback"
                          /\ ~records'.last.success)
        => records'.feedback = records.feedback ]_vars


\* the call took one of the paths that return the fallback list
FallbackPath ==
  \/ ~generation.apiKey
  \/ generation.evaluator = "throws"
  \/ Recovered < 5

\* C38: for the same academic level, title and technology list every
\* fallback path returns the same list, the one the missing-credential path
\* returns for them, also for an empty technology list.
C38_SameFallbackOnEveryPath ==
  (generation.done /\ FallbackPath)
    => generation.returned = getFallbackQuestions(Join(generation.technologies))


\* C39: every start call made by the component begins with
\* reconnectAttempts = 0, however the call before it ended, and so can make
\* 3 reconnection attempts; and no start call makes more than 1 + 3 calls
\* of the underlying start.
C39_FreshStartResetsAttempts ==
  /\ [][ (transport.pc = "idle" /\ transport'.pc = "starting")
           => transport'.reconnectAttempts = 0 ]_vars
  /\ [](transport.attempts <= 1 + 3)

=============================================================================
